---- MODULE Spec2Model ----
(***************************************************************************)
(* SuperMarks backend: the answer-key parse orchestrator                   *)
(* (app/routers/exams.py, parse_answer_key) together with the exam         *)
(* lifecycle handlers that share its database rows.                        *)
(*                                                                         *)
(* One exam is followed.  Requests are served one after the other; the     *)
(* parse handler is cut into steps at its calls to the inference client,   *)
(* which are its only suspension points.  Every step is the code that runs *)
(* between two such calls, database commit included.                       *)
(*                                                                         *)
(* Numbers: a confidence c in [0,1] is the integer 100*c.  A JSON value    *)
(* that the code tests with isinstance(..., (int, float)) is a record      *)
(* [kind, val]: kind "num" is a finite number, "inf" is the float that     *)
(* json.loads returns for an overflowing literal such as 1e999 (a number   *)
(* for isinstance, but int() raises OverflowError on it), "str" is any     *)
(* non-numeric value, and "huge" is a finite number that int() converts to  *)
(* an integer of 2^63 or more, which no INTEGER column of SQLite stores.   *)
(***************************************************************************)
EXTENDS Integers, Sequences, FiniteSets, TLC

(* ------------------------------ bounds -------------------------------- *)
MaxKeyFiles == 2        \* key files uploaded for the exam
MaxRuns == 2            \* parse invocations
MaxManualQuestions == 1 \* questions created through POST /questions
ManualMarks == 4        \* the max_marks given to them
MaxBulkPages == 4       \* pages of a bulk upload
MaxSubmitted == 2       \* candidates of an edited finalize request

(* ------------------------- program constants -------------------------- *)
MAX_RENDERED_KEY_PAGES == 10
EscalationThreshold == 60
MAX_CARRY_FORWARD_PAGES == 2
ROSTER_MATCH_THRESHOLD == 65
SYNTHETIC_CONFIDENCE == 40

NanoModel == "gpt-5-nano"
MiniModel == "gpt-5-mini"

ExamStatus == {"DRAFT", "KEY_UPLOADED", "KEY_PAGES_READY", "PARSED", "REVIEWING", "READY", "FAILED"}

(* ---------------------------- JSON values ----------------------------- *)
Num(v) == [kind |-> "num", val |-> v]
NotNum == [kind |-> "str", val |-> 0]
Inf == [kind |-> "inf", val |-> 0]
Huge == [kind |-> "huge", val |-> 0]
IsNumber(x) == x.kind \in {"num", "inf", "huge"}

Labels == {"Q1", "Q2"}
ManualLabels == {"Q2"}   \* the labels given to questions created by hand

\* An item of the questions list.  is_object: the item is a JSON object;
\* label_kind: its label is a string (label is its text), null, or missing;
\* criteria_is_list: its criteria key is missing or holds a list.
\* marks_confidence, marks_source, criteria and evidence are as the schema
\* asks for them unless WithDefects changes them.
RawItem(is_object, label_kind, label, max_marks, criteria_is_list) ==
    [is_object |-> is_object, label_kind |-> label_kind, label |-> label,
     max_marks |-> max_marks, criteria_is_list |-> criteria_is_list,
     marks_confidence |-> Num(100), marks_source |-> "explicit", criteria |-> <<>>,
     evidence_is_list |-> TRUE,
     evidence |-> <<[page_number |-> 0, kind |-> "question_box"]>>]

\* An entry of criteria: a JSON object with desc and marks, or something else.
Criterion(is_object, desc, marks) == [is_object |-> is_object, desc |-> desc, marks |-> marks]

\* The item with the keys that the validator coerces set to the given
\* values; an evidence that is not a list holds no regions.
WithDefects(q, marks_confidence, marks_source, criteria, evidence_is_list) ==
    [q EXCEPT !.marks_confidence = marks_confidence,
              !.marks_source = marks_source,
              !.criteria = criteria,
              !.evidence_is_list = evidence_is_list,
              !.evidence = IF evidence_is_list THEN @ ELSE <<>>]

RawQuestion(label, max_marks) == RawItem(TRUE, "string", label, max_marks, TRUE)

Payload(confidence_score, questions_is_list, questions, warnings) ==
    [confidence_score |-> confidence_score, questions_is_list |-> questions_is_list,
     questions |-> questions, warnings |-> warnings]

\* The decoded payloads the inference service is let to return in the
\* lifecycle specification: four confident ones with a question (one of
\* them with a max_marks that int() cannot convert, one with a max_marks
\* that the database cannot store), a weak one with a question and a
\* warning, two without questions, and one that does not validate.
SamplePayloads ==
    {Payload(Num(80), TRUE, <<RawQuestion("Q1", Num(3))>>, <<>>),
     Payload(Num(80), TRUE, <<RawQuestion("Q1", Num(5))>>, <<>>),
     Payload(Num(80), TRUE, <<RawQuestion("Q2", Inf)>>, <<>>),
     Payload(Num(80), TRUE, <<RawQuestion("Q2", Huge)>>, <<>>),
     Payload(Num(40), TRUE, <<RawQuestion("Q1", Num(3))>>, <<"model warning">>),
     Payload(Num(40), TRUE, <<>>, <<>>),
     Payload(Num(80), TRUE, <<>>, <<>>),
     Payload(NotNum, TRUE, <<>>, <<>>)}

(* --------------------------- pure functions --------------------------- *)
NoQuestionsWarning == "No questions extracted; please review manually."
InvalidOutputWarning == "Model output invalid; please add questions manually in review."

BlankLabel == "  "   \* a label of white space

\* str(question.get("label", "")).strip()
label_text(q) ==
    IF q.label_kind = "null" THEN "None"
    ELSE IF q.label_kind = "missing" THEN ""
    ELSE IF q.label = BlankLabel THEN ""
    ELSE q.label

\* The body of the loop over the questions raises nothing.
QuestionIsValid(q) ==
    /\ q.is_object
    /\ label_text(q) # ""
    /\ IsNumber(q.max_marks)
    /\ q.criteria_is_list

MarksSources == {"explicit", "inferred", "unknown"}

\* A loop body that leaves marks_source as the model gave it.
coerce_question_keep_source(q) ==
    [q EXCEPT !.marks_confidence = IF IsNumber(@) THEN @ ELSE Num(0),
              !.criteria = SelectSeq(@, LAMBDA c : c.is_object /\ IsNumber(c.marks)),
              !.evidence = IF q.evidence_is_list THEN @ ELSE <<>>,
              !.evidence_is_list = TRUE]

\* What the loop over the questions writes into a question it accepts.
coerce_question(q) ==
    [q EXCEPT !.marks_confidence = IF IsNumber(@) THEN @ ELSE Num(0),
              !.marks_source = IF @ \in MarksSources THEN @ ELSE "unknown",
              !.criteria = SelectSeq(@, LAMBDA c : c.is_object /\ IsNumber(c.marks)),
              !.evidence = IF q.evidence_is_list THEN @ ELSE <<>>,
              !.evidence_is_list = TRUE]

\* _validate_parse_payload: raised = TRUE stands for the ValueError.
validate_parse_payload(payload) ==
    LET conf == payload.confidence_score
        bad == \/ ~IsNumber(conf)
               \/ conf.kind \in {"inf", "huge"}
               \/ conf.val < 0
               \/ conf.val > 100
               \/ ~payload.questions_is_list
               \/ \E i \in 1..Len(payload.questions) : ~QuestionIsValid(payload.questions[i])
    IN IF bad
       THEN [raised |-> TRUE, confidence |-> 0, questions |-> <<>>, warnings |-> <<>>]
       ELSE [raised |-> FALSE,
             confidence |-> conf.val,
             questions |-> [i \in 1..Len(payload.questions) |->
                               coerce_question(payload.questions[i])],
             warnings |-> IF payload.questions = <<>>
                          THEN Append(payload.warnings, NoQuestionsWarning)
                          ELSE payload.warnings]

\* The try/except around the validator in the page loop.
validated_or_invalid(payload) ==
    LET v == validate_parse_payload(payload)
    IN IF v.raised
       THEN [confidence |-> 0, questions |-> <<>>, warnings |-> <<InvalidOutputWarning>>]
       ELSE [confidence |-> v.confidence, questions |-> v.questions, warnings |-> v.warnings]

\* Evidence normalisation of one page's questions: page_number defaults to
\* the current page.
normalize_evidence(qs, idx) ==
    [i \in 1..Len(qs) |->
        [qs[i] EXCEPT !.evidence =
            [j \in 1..Len(qs[i].evidence) |->
                [qs[i].evidence[j] EXCEPT !.page_number =
                    IF qs[i].evidence[j].page_number = 0 THEN idx
                    ELSE qs[i].evidence[j].page_number]]]]

\* What the page loop accumulates for a page from the accepted payload.
page_result(payload, idx) ==
    LET v == validated_or_invalid(payload)
    IN [confidence |-> v.confidence,
        questions |-> normalize_evidence(v.questions, idx),
        warnings |-> v.warnings]

\* The escalation test without its confidence half.
needs_escalation_empty_only(result_model, v) ==
    result_model = NanoModel /\ v.questions = <<>>

\* The escalation test without its test of the model that answered.
needs_escalation_any_model(result_model, v) ==
    v.questions = <<>> \/ v.confidence < EscalationThreshold

\* An escalation of every result of the fast tier.
needs_escalation_every_nano(result_model, v) == result_model = NanoModel

\* The escalation test on a validated fast-tier result.
needs_escalation(result_model, v) ==
    result_model = NanoModel /\ (v.questions = <<>> \/ v.confidence < EscalationThreshold)

(* ----------------------------- key pages ------------------------------ *)
ImageFile == [ext |-> ".png", pdf_pages |-> 0, renders |-> TRUE]
PdfFile(n) == [ext |-> ".pdf", pdf_pages |-> n, renders |-> TRUE]
BrokenPdfFile == [ext |-> ".pdf", pdf_pages |-> 1, renders |-> FALSE]
KeyFileKinds == {ImageFile, BrokenPdfFile}

RECURSIVE build_loop(_, _, _)
\* The loop of build_key_pages_for_exam over the key files, from file i with
\* page_num the next page number: the page rows added to the session, and
\* whether an HTTPException ended the loop.
build_loop(files, i, page_num) ==
    IF i > Len(files)
    THEN [raised |-> FALSE, detail |-> "", pages |-> [n \in 1..(page_num - 1) |-> n]]
    ELSE LET f == files[i]
             so_far == [n \in 1..(page_num - 1) |-> n]
             remaining_pages == MAX_RENDERED_KEY_PAGES - (page_num - 1)
         IN IF f.ext = ".png"
            THEN IF page_num > MAX_RENDERED_KEY_PAGES
                 THEN [raised |-> TRUE, detail |-> "Too many key pages", pages |-> so_far]
                 ELSE build_loop(files, i + 1, page_num + 1)
            ELSE IF remaining_pages <= 0
                 THEN [raised |-> TRUE, detail |-> "Too many key pages", pages |-> so_far]
                 ELSE IF ~f.renders
                 THEN [raised |-> TRUE, detail |-> "PDF render failed", pages |-> so_far]
                 ELSE IF f.pdf_pages > remaining_pages
                 THEN [raised |-> TRUE, detail |-> "PDF has too many pages", pages |-> so_far]
                 ELSE build_loop(files, i + 1, page_num + f.pdf_pages)

\* build_key_pages_for_exam: existing page rows are returned as they are;
\* otherwise the rows are rebuilt from the key files.  pages is what the
\* session holds when the function returns or raises.
build_key_pages_for_exam(existing, files) ==
    IF existing # <<>>
    THEN [raised |-> FALSE, detail |-> "", pages |-> existing]
    ELSE IF files = <<>>
    THEN [raised |-> TRUE, detail |-> "No key files uploaded", pages |-> existing]
    ELSE build_loop(files, 1, 1)

(* --------------------------- save questions --------------------------- *)
EvidenceKinds == {"question_box", "answer_box", "marks_box"}

\* existing = {q.label: q for q in ...}: for every label the last row that
\* carries it (0 when there is none), as read once before the save loop.
existing_by_label(qs) ==
    [l \in Labels |->
        IF \E i \in 1..Len(qs) : qs[i].label = l
        THEN CHOOSE i \in 1..Len(qs) :
                /\ qs[i].label = l
                /\ \A j \in 1..Len(qs) : qs[j].label = l => j <= i
        ELSE 0]

\* The QuestionParseEvidence rows inserted for one parsed question.
evidence_rows(evidence_list) ==
    SelectSeq(evidence_list, LAMBDA e : e.kind \in EvidenceKinds)

\* An insert of the new rows that keeps the rows the question had.
insert_evidence(old_rows, rows) == old_rows \o rows

\* The delete of the question's QuestionParseEvidence rows, then the insert of
\* the new rows: what the question has afterwards.
delete_then_insert_evidence(old_rows, rows) == rows

\* A lookup that never finds the label.
lookup_question_never(existing, label) == 0

\* A lookup that finds the question of the other label.
lookup_question_other_label(existing, label) ==
    existing[CHOOSE l \in Labels : l # label]

\* The question looked up for a parsed item.
lookup_question(existing, label) == existing[label]

RECURSIVE save_loop(_, _, _, _)
\* The save loop from item k of the merged payload: qs is the session's view
\* of the Question rows (id = position), evidence rows included.  raised is
\* "convert" for the exception of int() on a non-finite max_marks, which
\* leaves the rows flushed so far in the open transaction, and "flush" for
\* the exception of session.flush() on a max_marks the column cannot store,
\* which leaves the session's transaction rolled back and unusable.
save_loop(qs, existing, merged, k) ==
    IF k > Len(merged)
    THEN [raised |-> "no", questions |-> qs]
    ELSE LET parsed == merged[k]
         IN IF parsed.max_marks.kind \in {"inf", "str"}
            THEN [raised |-> "convert", questions |-> qs]
            ELSE IF parsed.max_marks.kind = "huge"
            THEN [raised |-> "flush", questions |-> qs]
            ELSE LET qid == lookup_question(existing, parsed.label)
                     rows == evidence_rows(parsed.evidence)
                     qs2 == IF qid # 0
                            THEN [qs EXCEPT ![qid].max_marks = parsed.max_marks.val,
                                            ![qid].evidence =
                                                delete_then_insert_evidence(@, rows)]
                            ELSE Append(qs, [label |-> parsed.label,
                                             max_marks |-> parsed.max_marks.val,
                                             evidence |->
                                                 delete_then_insert_evidence(<<>>, rows)])
                 IN save_loop(qs2, existing, merged, k + 1)

save_questions(qs, merged) == save_loop(qs, existing_by_label(qs), merged, 1)

(* ------------------------- inference outcomes ------------------------- *)
ErrorStatuses == {504, 500}

Failure(status) == [failed |-> TRUE, status_code |-> status, model |-> "",
                    payload |-> [confidence_score |-> NotNum, questions_is_list |-> FALSE,
                                 questions |-> <<>>, warnings |-> <<>>]]
Success(model, payload) == [failed |-> FALSE, status_code |-> 0, model |-> model, payload |-> payload]

\* What parser.parse may do when called for `model`: raise OpenAIRequestError
\* or return a ParseResult.  A result of a mini call carries the mini model;
\* a result of a nano call carries the nano model, or the mini model when
\* OpenAIAnswerKeyParser.parse fell back to mini by itself.
ParseOutcomes(model) ==
    {Failure(st) : st \in ErrorStatuses}
    \cup {Success(m, p) : m \in (IF model = NanoModel THEN {NanoModel, MiniModel} ELSE {MiniModel}),
                          p \in SamplePayloads}

(* ------------------------------- state -------------------------------- *)
VARIABLES
    exam_status,     \* Exam.status, "none" while the exam does not exist
    key_files,       \* ExamKeyFile rows of the exam, in id order
    key_pages,       \* ExamKeyPage rows of the exam: their page numbers
    questions,       \* Question rows of the exam (id = position) with their evidence rows
    manual_count,    \* questions created by hand so far
    runs,            \* ExamKeyParseRun rows of the exam
    parser,          \* the injected AnswerKeyParser
    pc,              \* position of the parse handler
    stage,           \* local of parse_answer_key
    page_index,      \* local of parse_answer_key
    page_count,      \* local of parse_answer_key
    nano_failures,   \* local of parse_answer_key
    attempts,        \* local of parse_answer_key
    page_results,    \* per page: what the loop appended to the merged lists
    result_model,    \* local of parse_answer_key
    received,        \* the ParseResult returned by the latest parser call
    calls,           \* every parser call of this invocation: page and model
    response,        \* the response of the invocation
    before,          \* the rows as they were when the invocation started
    last_success,    \* labels and marks left by the latest successful parse
    detections,      \* bulk upload: the per-page name detections, in page order
    roster,          \* argument of _segment_bulk_candidates
    min_pages_per_student, \* argument of _segment_bulk_candidates
    seg_pc,          \* position of the bulk preview / finalize handlers
    det_index,       \* position of the loop over detections
    current_name,    \* local of _segment_bulk_candidates
    current_start,   \* local of _segment_bulk_candidates
    confidences,     \* local of _segment_bulk_candidates
    missing_run,     \* local of _segment_bulk_candidates
    candidates,      \* local of _segment_bulk_candidates
    warnings,        \* local of _segment_bulk_candidates
    bulk_pages,      \* BulkUploadPage rows of the bulk upload: their page numbers
    submitted,       \* payload.candidates of the finalize request
    submissions,     \* Submission rows with their file and page rows
    finalize_response, \* the response of the finalize request
    bulk_found,      \* whether the ExamBulkUploadFile row of the request exists
    openai_pc,       \* position of OpenAIAnswerKeyParser.parse
    openai_key,      \* the parser call being served: run and call number
    parse_result,    \* what OpenAIAnswerKeyParser.parse returns or raises
    retry_pc,        \* position of _call_openai_with_retry
    retry_model,     \* its argument model
    retry_attempt,   \* its loop variable attempt
    retry_calls,     \* client.responses.create calls it has made
    slept,           \* the delays it has slept
    last_outcome,    \* what the latest client.responses.create call did
    client_calls,    \* create calls and their errors during the current run
    schema,          \* the schema document a schema function works on
    schema_pc,       \* which schema function has run on it
    schema_error,    \* whether SchemaBuildError was raised
    raw_payload,     \* argument of _validate_parse_payload
    validate_pc,     \* whether _validate_parse_payload has run
    validate_result, \* what _validate_parse_payload returned or raised
    sessions         \* concurrent parse requests: position and locals of each

db_vars == <<exam_status, key_files, key_pages, questions, manual_count, runs>>
local_vars == <<pc, stage, page_index, page_count, nano_failures, attempts, page_results,
                result_model, received, calls, response, before>>
parse_vars == <<exam_status, key_files, key_pages, questions, manual_count, runs, parser,
                pc, stage, page_index, page_count, nano_failures, attempts, page_results,
                result_model, received, calls, response, before, last_success>>
bulk_vars == <<detections, roster, min_pages_per_student, seg_pc, det_index, current_name,
               current_start, confidences, missing_run, candidates, warnings, bulk_pages,
               submitted, submissions, finalize_response, bulk_found>>
\* What the exam lifecycle and parse handlers do not touch.
client_vars == <<openai_pc, openai_key, parse_result, retry_pc, retry_model, retry_attempt,
                 retry_calls, slept, last_outcome, client_calls>>
schema_vars == <<schema, schema_pc, schema_error>>
validator_vars == <<raw_payload, validate_pc, validate_result>>
outside_parse == <<bulk_vars, client_vars, schema_vars, validator_vars, sessions>>
outside_bulk == <<parse_vars, client_vars, schema_vars, validator_vars, sessions>>
outside_client == <<parse_vars, bulk_vars, schema_vars, validator_vars, sessions>>
outside_schema == <<parse_vars, bulk_vars, client_vars, validator_vars, sessions>>
outside_validator == <<parse_vars, bulk_vars, client_vars, schema_vars, sessions>>
outside_sessions == <<bulk_vars, client_vars, schema_vars, validator_vars>>
vars == <<parse_vars, bulk_vars, client_vars, schema_vars, validator_vars, sessions>>

Stage(name, page) == [name |-> name, page |-> page]
NoStage == Stage("", 0)
NoError == [detail |-> "", stage |-> NoStage, page_index |-> 0, page_count |-> 0, openai_status |-> 0]
NoResult == Success("", [confidence_score |-> NotNum, questions_is_list |-> FALSE,
                         questions |-> <<>>, warnings |-> <<>>])
NoResponse == [status_code |-> 0, detail |-> "", stage |-> NoStage, page_index |-> 0,
               page_count |-> 0, openai_status |-> 0, warnings |-> <<>>,
               questions_count |-> 0, confidence_score |-> 0, model_used |-> ""]
NoSnapshot == [exam_status |-> "none", questions |-> <<>>, runs |-> <<>>, key_pages |-> <<>>]
NoSuccess == [valid |-> FALSE, questions |-> <<>>]

LiveParser == [deterministic |-> FALSE, table |-> <<>>]

RECURSIVE concat_questions(_, _)
concat_questions(prs, n) ==
    IF n = 0 THEN <<>> ELSE concat_questions(prs, n - 1) \o prs[n].questions

RECURSIVE concat_warnings(_, _)
concat_warnings(prs, n) ==
    IF n = 0 THEN <<>> ELSE concat_warnings(prs, n - 1) \o prs[n].warnings

merged_questions_payload == concat_questions(page_results, Len(page_results))
merged_warnings == concat_warnings(page_results, Len(page_results))
confidence_scores == [i \in 1..Len(page_results) |-> page_results[i].confidence]

\* A report of the first page's confidence only.
min_confidence_first(scores) ==
    IF scores = <<>> THEN 0 ELSE scores[1]

min_confidence(scores) ==
    IF scores = <<>> THEN 0
    ELSE CHOOSE c \in {scores[i] : i \in 1..Len(scores)} :
            \A i \in 1..Len(scores) : c <= scores[i]

LocalsInit ==
    /\ pc = "idle"
    /\ stage = NoStage
    /\ page_index = 0
    /\ page_count = 0
    /\ nano_failures = 0
    /\ attempts = <<>>
    /\ page_results = <<>>
    /\ result_model = ""
    /\ received = NoResult
    /\ calls = <<>>
    /\ response = NoResponse
    /\ before = NoSnapshot

DbInit ==
    /\ exam_status = "none"
    /\ key_files = <<>>
    /\ key_pages = <<>>
    /\ questions = <<>>
    /\ manual_count = 0
    /\ runs = <<>>
    /\ last_success = NoSuccess

\* No bulk upload is in progress.
NoFinalizeResponse == [status_code |-> 0, detail |-> "", submissions |-> <<>>, warnings |-> <<>>]
UnknownStudent == "Unknown Student"

BulkIdle ==
    /\ detections = <<>>
    /\ roster = <<>>
    /\ min_pages_per_student = 1
    /\ seg_pc = "idle"
    /\ det_index = 0
    /\ current_name = UnknownStudent
    /\ current_start = 0
    /\ confidences = <<>>
    /\ missing_run = 0
    /\ candidates = <<>>
    /\ warnings = <<>>
    /\ bulk_pages = <<>>
    /\ submitted = <<>>
    /\ submissions = <<>>
    /\ finalize_response = NoFinalizeResponse
    /\ bulk_found = FALSE

\* What client.responses.create may do: time out, fail with an HTTP status,
\* answer with text that is not JSON, or answer with a payload.
NoOutcome == [kind |-> "none", status_code |-> 0, payload |-> NoResult.payload]
TimedOut == [kind |-> "timeout", status_code |-> 0, payload |-> NoResult.payload]
StatusError(status) == [kind |-> "status", status_code |-> status, payload |-> NoResult.payload]
NotJson == [kind |-> "not_json", status_code |-> 0, payload |-> NoResult.payload]
Answer(payload) == [kind |-> "ok", status_code |-> 0, payload |-> payload]

NoneCreated == [nano |-> 0, mini |-> 0, timeouts |-> 0, other_errors |-> 0]

\* The injected parser is not in a call.
ClientIdle ==
    /\ openai_pc = "idle"
    /\ openai_key = <<0, 0>>
    /\ parse_result = NoResult
    /\ retry_pc = "idle"
    /\ retry_model = ""
    /\ retry_attempt = 0
    /\ retry_calls = 0
    /\ slept = <<>>
    /\ last_outcome = NoOutcome
    /\ client_calls = NoneCreated

\* An OpenAIAnswerKeyParser with its two backoff schedules.
OpenAIParser(retry_backoffs_seconds, mini_retry_backoffs_seconds) ==
    [deterministic |-> FALSE, table |-> <<>>,
     retry_backoffs_seconds |-> retry_backoffs_seconds,
     mini_retry_backoffs_seconds |-> mini_retry_backoffs_seconds]

IsOpenAI(p) == "retry_backoffs_seconds" \in DOMAIN p

(* --------------------------- schema builder --------------------------- *)
\* A schema node is a JSON object with the keys the schema functions read.
\* A key that may be absent holds a sequence: empty when the key is absent,
\* else its value alone.  properties is a dict in insertion order, required
\* a list of names.  anyOf stands for anyOf, oneOf and allOf alike, which
\* both functions treat the same way.  Keys without schema nodes below them
\* (enum) are left out.
SchemaNode(type, properties, items, anyOf, additionalProperties, required) ==
    [type |-> type, properties |-> properties, items |-> items, anyOf |-> anyOf,
     additionalProperties |-> additionalProperties, required |-> required]
Leaf(type) == SchemaNode(type, <<>>, <<>>, <<>>, <<>>, <<>>)
Prop(key, value) == [key |-> key, value |-> value]
Object(properties) == SchemaNode("object", <<properties>>, <<>>, <<>>, <<>>, <<>>)
Array(items) == SchemaNode("array", <<>>, <<items>>, <<>>, <<>>, <<>>)
NoSchema == Leaf("null")

\* _base_answer_key_schema
base_answer_key_schema ==
    Object(<<
        Prop("confidence_score", Leaf("number")),
        Prop("warnings", Array(Leaf("string"))),
        Prop("questions", Array(Object(<<
            Prop("label", Leaf("string")),
            Prop("max_marks", Leaf("number")),
            Prop("marks_source", Leaf("string")),
            Prop("marks_confidence", Leaf("number")),
            Prop("marks_reason", Leaf("string")),
            Prop("question_text", Leaf("string")),
            Prop("answer_key", Leaf("string")),
            Prop("model_solution", Leaf("string")),
            Prop("warnings", Array(Leaf("string"))),
            Prop("criteria", Array(Object(<<
                Prop("desc", Leaf("string")),
                Prop("marks", Leaf("number"))>>))),
            Prop("evidence", Array(Object(<<
                Prop("page_number", Leaf("integer")),
                Prop("x", Leaf("number")),
                Prop("y", Leaf("number")),
                Prop("w", Leaf("number")),
                Prop("h", Leaf("number")),
                Prop("kind", Leaf("string")),
                Prop("confidence", Leaf("number"))>>)))>>)))>>)

\* list(properties.keys())
keys(properties) == [i \in 1..Len(properties) |-> properties[i].key]

\* The first half of _ensure_strict_schema_node: what it sets on the node
\* itself.
make_strict(node) ==
    IF node.type = "object"
    THEN LET properties == IF node.properties = <<>> THEN <<>> ELSE node.properties[1]
         IN [node EXCEPT !.properties = <<properties>>,
                         !.additionalProperties = <<FALSE>>,
                         !.required = <<keys(properties)>>]
    ELSE node

\* An _ensure_strict_schema_node that does not go into items.
RECURSIVE ensure_strict_schema_node_not_items(_)
ensure_strict_schema_node_not_items(node) ==
    LET strict == make_strict(node)
    IN [strict EXCEPT
           !.properties =
               IF strict.properties = <<>> THEN <<>>
               ELSE <<[i \in 1..Len(strict.properties[1]) |->
                         Prop(strict.properties[1][i].key,
                              ensure_strict_schema_node_not_items(strict.properties[1][i].value))]>>,
           !.anyOf = [i \in 1..Len(strict.anyOf) |->
                         ensure_strict_schema_node_not_items(strict.anyOf[i])]]

\* _ensure_strict_schema_node: the node after the in-place update.
RECURSIVE ensure_strict_schema_node(_)
ensure_strict_schema_node(node) ==
    LET strict == make_strict(node)
    IN [strict EXCEPT
           !.properties =
               IF strict.properties = <<>> THEN <<>>
               ELSE <<[i \in 1..Len(strict.properties[1]) |->
                         Prop(strict.properties[1][i].key,
                              ensure_strict_schema_node(strict.properties[1][i].value))]>>,
           !.items = IF strict.items = <<>> THEN <<>>
                     ELSE <<ensure_strict_schema_node(strict.items[1])>>,
           !.anyOf = [i \in 1..Len(strict.anyOf) |-> ensure_strict_schema_node(strict.anyOf[i])]]

\* The checks _walk makes on one node.
node_raises(node) ==
    \/ /\ node.type = "object"
       /\ \/ node.additionalProperties # <<FALSE>>
          \/ node.required = <<>>
    \/ /\ node.type = "array"
       /\ node.items # <<>>
       /\ node.items[1].type = "object"
       /\ node.items[1].required = <<>>

\* _walk of validate_schema_strictness: TRUE when SchemaBuildError is raised
\* at the node or below it.  The walk goes into every value of the node.
RECURSIVE walk(_)
walk(node) ==
    \/ node_raises(node)
    \/ /\ node.properties # <<>>
       /\ \E i \in 1..Len(node.properties[1]) : walk(node.properties[1][i].value)
    \/ /\ node.items # <<>>
       /\ walk(node.items[1])
    \/ \E i \in 1..Len(node.anyOf) : walk(node.anyOf[i])

validate_schema_strictness(document) == walk(document)

\* No schema function is running.
SchemaIdle ==
    /\ schema = NoSchema
    /\ schema_pc = "idle"
    /\ schema_error = FALSE

NoValidation == [raised |-> FALSE, confidence |-> 0, questions |-> <<>>, warnings |-> <<>>]

\* _validate_parse_payload is not running.
ValidatorIdle ==
    /\ raw_payload = NoResult.payload
    /\ validate_pc = "idle"
    /\ validate_result = NoValidation

\* A parse request served next to others: where its handler stands, its run
\* row, the merged payload of its page loop, and the label map it read.
MaxSessions == 2
Sessions == 1..MaxSessions
NoSession == [pc |-> "idle", run |-> 0, merged |-> <<>>, existing |-> [l \in Labels |-> 0]]

\* No parse request is being served next to another.
SessionsIdle == sessions = [w \in Sessions |-> NoSession]

Init ==
    DbInit /\ LocalsInit /\ SessionsIdle /\ parser = LiveParser /\ BulkIdle /\ ClientIdle /\ SchemaIdle
    /\ ValidatorIdle

(* ------------------------- lifecycle handlers ------------------------- *)
\* POST /exams
create_exam ==
    /\ pc = "idle"
    /\ UNCHANGED outside_parse
    /\ exam_status = "none"
    /\ exam_status' = "DRAFT"
    /\ UNCHANGED <<key_files, key_pages, questions, manual_count, runs, parser, last_success>>
    /\ UNCHANGED local_vars

\* An upload that sets the exam back to DRAFT.
status_after_upload_draft(status) == "DRAFT"

\* The status upload_exam_key_files leaves on the exam.
status_after_upload(status) == "KEY_UPLOADED"

\* POST /exams/{id}/key/upload with one accepted file
upload_exam_key_files ==
    /\ pc = "idle"
    /\ UNCHANGED outside_parse
    /\ exam_status # "none"
    /\ Len(key_files) < MaxKeyFiles
    /\ \E f \in KeyFileKinds : key_files' = Append(key_files, f)
    /\ exam_status' = status_after_upload(exam_status)
    /\ UNCHANGED <<key_pages, questions, manual_count, runs, parser, last_success>>
    /\ UNCHANGED local_vars

\* POST /exams/{id}/key/build-pages: an HTTPException of the build leaves the
\* session uncommitted, so no row changes.
build_exam_key_pages ==
    /\ pc = "idle"
    /\ UNCHANGED outside_parse
    /\ exam_status # "none"
    /\ LET b == build_key_pages_for_exam(key_pages, key_files)
       IN IF b.raised
          THEN UNCHANGED <<exam_status, key_pages>>
          ELSE /\ key_pages' = b.pages
               /\ exam_status' = "KEY_PAGES_READY"
    /\ UNCHANGED <<key_files, questions, manual_count, runs, parser, last_success>>
    /\ UNCHANGED local_vars

\* POST /exams/{id}/questions
create_question ==
    /\ pc = "idle"
    /\ UNCHANGED outside_parse
    /\ exam_status # "none"
    /\ manual_count < MaxManualQuestions
    /\ \E l \in ManualLabels :
          questions' = Append(questions, [label |-> l, max_marks |-> ManualMarks, evidence |-> <<>>])
    /\ manual_count' = manual_count + 1
    /\ last_success' = NoSuccess
    /\ UNCHANGED <<exam_status, key_files, key_pages, runs, parser>>
    /\ UNCHANGED local_vars

\* POST /exams/{id}/key/review/complete
complete_key_review ==
    /\ pc = "idle"
    /\ UNCHANGED outside_parse
    /\ exam_status # "none"
    /\ exam_status' = "READY"
    /\ UNCHANGED <<key_files, key_pages, questions, manual_count, runs, parser, last_success>>
    /\ UNCHANGED local_vars

(* --------------------------- parse_answer_key ------------------------- *)
AllowLists == {{NanoModel, MiniModel}, {NanoModel}}

\* _resolve_models: FALSE stands for the ValueError.
resolve_models(allowed) == NanoModel \in allowed /\ MiniModel \in allowed

new_run == [status |-> "running", finished_at |-> FALSE, model_used |-> "", error |-> NoError]

\* A failure path that records the error but leaves the run as it is.
failed_run_still_running(run, err) == [run EXCEPT !.error = err]

\* The run row as every failure path of the handler writes it.
failed_run(run, err) == [run EXCEPT !.status = "failed", !.finished_at = TRUE, !.error = err]

\* The run row as the success path writes it.
succeeded_run(run, model) == [run EXCEPT !.status = "success", !.finished_at = TRUE, !.model_used = model]

run_error(detail, st, idx, count, openai_status) ==
    [detail |-> detail, stage |-> st, page_index |-> idx, page_count |-> count,
     openai_status |-> openai_status]

\* _err
err_response(code, detail, st, idx, count, openai_status) ==
    [NoResponse EXCEPT !.status_code = code, !.detail = detail, !.stage = st,
                       !.page_index = idx, !.page_count = count,
                       !.openai_status = openai_status]

\* A handler that commits no status before the page loop.
status_after_build_kept(status) == status

\* The status the handler commits once the key pages are available.
status_after_build(status) == "KEY_PAGES_READY"

\* A save step that closes the review by itself.
status_after_save_ready(merged) == "READY"

\* A save step that never sets REVIEWING.
status_after_save_parsed(merged) == "PARSED"

\* The status the save step leaves on the exam.
status_after_save(merged) == IF merged # <<>> THEN "REVIEWING" ELSE "PARSED"

\* What the injected parser does for a call: anything for the live client,
\* the table entry for a deterministic stub.
parser_outcomes(model, idx) ==
    IF parser.deterministic THEN {parser.table[<<model, idx>>]}
    ELSE IF IsOpenAI(parser)
    THEN (IF openai_pc = "done" /\ openai_key = <<Len(runs), Len(calls)>>
          THEN {parse_result} ELSE {})
    ELSE ParseOutcomes(model)

\* First step: create the run, load the exam, make the key pages available,
\* resolve the models; ends at the first parser call or at a failure response.
\* image_paths are the pages whose image file exists: all of them, or none
\* when the files are gone from the data directory.
parse_begin ==
    /\ pc = "idle"
    /\ UNCHANGED outside_parse
    /\ Len(runs) < MaxRuns
    /\ before' = [exam_status |-> exam_status, questions |-> questions, runs |-> runs,
                  key_pages |-> key_pages]
    /\ UNCHANGED <<key_files, questions, manual_count, parser, last_success>>
    /\ attempts' = <<>>
    /\ page_results' = <<>>
    /\ received' = NoResult
    /\ calls' = <<>>
    /\ nano_failures' = 0
    /\ \E allowed \in AllowLists, images_exist \in BOOLEAN :
        LET b == build_key_pages_for_exam(key_pages, key_files)
            image_paths == IF images_exist THEN b.pages ELSE <<>>
        IN IF exam_status = "none"
           THEN /\ runs' = Append(runs, failed_run(new_run,
                               run_error("Exam not found", Stage("load_exam", 0), 0, 0, 0)))
                /\ response' = err_response(404, "Exam not found", Stage("load_exam", 0), 0, 0, 0)
                /\ stage' = Stage("load_exam", 0)
                /\ pc' = "done"
                /\ page_index' = 0 /\ page_count' = 0 /\ result_model' = ""
                /\ UNCHANGED <<exam_status, key_pages>>
           ELSE IF b.raised
           THEN \* the handler's commit also commits the rows the build had added
                /\ runs' = Append(runs, failed_run(new_run,
                               run_error(b.detail, Stage("build_key_pages", 0), 0, 0, 0)))
                /\ response' = err_response(400, b.detail, Stage("build_key_pages", 0), 0, 0, 0)
                /\ stage' = Stage("build_key_pages", 0)
                /\ pc' = "done"
                /\ key_pages' = b.pages
                /\ page_index' = 0 /\ page_count' = 0 /\ result_model' = ""
                /\ UNCHANGED exam_status
           ELSE /\ key_pages' = b.pages
                /\ exam_status' = status_after_build(exam_status)
                /\ IF image_paths = <<>>
                   THEN /\ runs' = Append(runs, failed_run(new_run,
                                    run_error("No key pages available", Stage("build_key_pages", 0), 0, 0, 0)))
                        /\ response' = err_response(400, "No key pages available",
                                                    Stage("build_key_pages", 0), 0, 0, 0)
                        /\ stage' = Stage("build_key_pages", 0)
                        /\ pc' = "done"
                        /\ page_index' = 0 /\ page_count' = 0 /\ result_model' = ""
                   ELSE IF ~resolve_models(allowed)
                   THEN /\ runs' = Append(runs, failed_run(new_run,
                                    run_error("Missing required model in allowlist",
                                              Stage("model_config", 0), 0, Len(image_paths), 0)))
                        /\ response' = err_response(500, "Key parsing failed",
                                                    Stage("model_config", 0), 0, Len(image_paths), 0)
                        /\ stage' = Stage("model_config", 0)
                        /\ pc' = "done"
                        /\ page_index' = 0 /\ page_count' = Len(image_paths) /\ result_model' = ""
                   ELSE /\ runs' = Append(runs, new_run)
                        /\ response' = NoResponse
                        /\ stage' = Stage("call_openai_nano_page", 1)
                        /\ pc' = "call_nano"
                        /\ page_index' = 1
                        /\ page_count' = Len(image_paths)
                        /\ result_model' = NanoModel

attempt(model, idx, failed) == [model |-> model, page_index |-> idx, failed |-> failed]

\* A loop that starts the next page with the mini call.
accumulate_to_mini(pr) ==
    /\ page_results' = Append(page_results, pr)
    /\ IF page_index < page_count
       THEN /\ page_index' = page_index + 1
            /\ stage' = Stage("call_openai_mini_page", page_index + 1)
            /\ pc' = "call_mini_escalation"
            /\ nano_failures' = 0
       ELSE /\ page_index' = page_index
            /\ stage' = Stage("save_questions", 0)
            /\ pc' = "save"
            /\ nano_failures' = nano_failures

\* The page's result is appended to the merged lists; the loop goes on to the
\* next page's nano call or leaves for the save step.
accumulate(pr) ==
    /\ page_results' = Append(page_results, pr)
    /\ IF page_index < page_count
       THEN /\ page_index' = page_index + 1
            /\ stage' = Stage("call_openai_nano_page", page_index + 1)
            /\ pc' = "call_nano"
            /\ nano_failures' = 0
       ELSE /\ page_index' = page_index
            /\ stage' = Stage("save_questions", 0)
            /\ pc' = "save"
            /\ nano_failures' = nano_failures

\* The loop goes to the escalation call on mini for the same page.
escalate ==
    /\ page_results' = page_results
    /\ page_index' = page_index
    /\ stage' = Stage("call_openai_mini_page", page_index)
    /\ pc' = "call_mini_escalation"
    /\ nano_failures' = nano_failures

\* A test that asks for two failures of the mini call.
both_tiers_failed_twice(nano_fail, mini_fail) == nano_fail >= 2 /\ mini_fail >= 2

\* The test that turns a failed mini call into the 504 abort.
both_tiers_failed(nano_fail, mini_fail) == nano_fail >= 2 /\ mini_fail >= 1

\* The status code of the response to an OpenAIRequestError that reaches the
\* handler's except clause.
upstream_failure_code(status) == IF status = 504 THEN 504 ELSE 502

\* The handler returns the 504 "timed out on page idx" response.
abort_timed_out(out) ==
    /\ runs' = [runs EXCEPT ![Len(runs)] = failed_run(@,
                    run_error("OpenAI timed out on page", Stage("call_openai_mini_page", page_index),
                              page_index, page_count, 0))]
    /\ response' = err_response(504, "OpenAI timed out on page",
                                Stage("call_openai_mini_page", page_index),
                                page_index, page_count, out.status_code)
    /\ stage' = Stage("call_openai_mini_page", page_index)
    /\ pc' = "done"
    /\ UNCHANGED <<page_results, page_index, nano_failures, attempts, received, result_model>>

\* The OpenAIRequestError propagates to the handler's except clause.
abort_upstream(out) ==
    /\ runs' = [runs EXCEPT ![Len(runs)] = failed_run(@,
                    run_error("OpenAI request failed", stage, page_index, page_count, out.status_code))]
    /\ response' = err_response(upstream_failure_code(out.status_code),
                                IF out.status_code = 504 THEN "OpenAI request timed out"
                                ELSE "OpenAI request failed",
                                stage, page_index, page_count, out.status_code)
    /\ pc' = "done"
    /\ UNCHANGED <<stage, page_results, page_index, nano_failures, attempts, received, result_model>>

\* The nano call of the current page and the code up to the next parser call.
parse_call_nano ==
    /\ pc = "call_nano"
    /\ UNCHANGED outside_parse
    /\ UNCHANGED <<db_vars, parser, last_success, page_count, before, result_model, response>>
    /\ calls' = Append(calls, [page_index |-> page_index, model |-> NanoModel])
    /\ \E out \in parser_outcomes(NanoModel, page_index) :
        IF out.failed
        THEN /\ nano_failures' = 2
             /\ attempts' = Append(attempts, attempt(NanoModel, page_index, TRUE))
             /\ stage' = Stage("call_openai_mini_page", page_index)
             /\ pc' = "call_mini_after_failure"
             /\ UNCHANGED <<page_results, page_index, received>>
        ELSE /\ attempts' = Append(attempts, attempt(NanoModel, page_index, FALSE))
             /\ received' = out
             /\ LET pr == page_result(out.payload, page_index)
                IN IF needs_escalation(out.model, pr) THEN escalate ELSE accumulate(pr)

\* The mini call that follows a failed nano call.
parse_call_mini_after_failure ==
    /\ pc = "call_mini_after_failure"
    /\ UNCHANGED outside_parse
    /\ UNCHANGED <<exam_status, key_files, key_pages, questions, manual_count, parser,
                   last_success, page_count, before>>
    /\ calls' = Append(calls, [page_index |-> page_index, model |-> MiniModel])
    /\ \E out \in parser_outcomes(MiniModel, page_index) :
        IF out.failed
        THEN IF both_tiers_failed(nano_failures, 1)
             THEN abort_timed_out(out)
             ELSE abort_upstream(out)
        ELSE /\ attempts' = Append(attempts, attempt(MiniModel, page_index, FALSE))
             /\ received' = out
             /\ result_model' = out.model
             /\ UNCHANGED <<runs, response>>
             /\ LET pr == page_result(out.payload, page_index)
                IN IF needs_escalation(out.model, pr) THEN escalate ELSE accumulate(pr)

\* The mini call that re-runs a page whose nano result was empty or weak.
parse_call_mini_escalation ==
    /\ pc = "call_mini_escalation"
    /\ UNCHANGED outside_parse
    /\ UNCHANGED <<exam_status, key_files, key_pages, questions, manual_count, parser,
                   last_success, page_count, before>>
    /\ calls' = Append(calls, [page_index |-> page_index, model |-> MiniModel])
    /\ \E out \in parser_outcomes(MiniModel, page_index) :
        IF out.failed
        THEN IF both_tiers_failed(nano_failures, 1)
             THEN abort_timed_out(out)
             ELSE abort_upstream(out)
        ELSE /\ attempts' = Append(attempts, attempt(MiniModel, page_index, FALSE))
             /\ received' = out
             /\ result_model' = out.model
             /\ UNCHANGED <<runs, response>>
             /\ accumulate(page_result(out.payload, page_index))

\* The response the framework gives when an exception leaves the handler.
unhandled_response == [NoResponse EXCEPT !.status_code = 500, !.detail = "Internal Server Error"]

\* The save step and the success response, or the except clause when the
\* save loop raised.  After an exception of int() the clause's commit commits
\* the failed run together with what the loop had flushed.  After an
\* exception of flush() the clause's commit raises PendingRollbackError: the
\* exception leaves the handler, the session is closed without a commit, and
\* the rows are as the last commit (before the page loop) left them.
parse_save_questions ==
    /\ pc = "save"
    /\ UNCHANGED outside_parse
    /\ UNCHANGED <<key_files, key_pages, manual_count, parser, last_success, page_count,
                   before, page_index, nano_failures, attempts, page_results, received,
                   calls, result_model, stage>>
    /\ LET s == save_questions(questions, merged_questions_payload)
       IN /\ pc' = "done"
          /\ IF s.raised = "flush"
             THEN /\ response' = unhandled_response
                  /\ UNCHANGED <<questions, runs, exam_status>>
             ELSE IF s.raised = "convert"
             THEN /\ questions' = s.questions
                  /\ runs' = [runs EXCEPT ![Len(runs)] = failed_run(@,
                                 run_error("exception", stage, page_index, page_count, 0))]
                  /\ response' = err_response(500, "Key parsing failed", stage,
                                              page_index, page_count, 0)
                  /\ UNCHANGED exam_status
             ELSE /\ questions' = s.questions
                  /\ exam_status' = status_after_save(merged_questions_payload)
                  /\ runs' = [runs EXCEPT ![Len(runs)] = succeeded_run(@, result_model)]
                  /\ response' = [NoResponse EXCEPT
                                    !.status_code = 200,
                                    !.stage = stage,
                                    !.page_index = page_count,
                                    !.page_count = page_count,
                                    !.warnings = merged_warnings,
                                    !.questions_count = Len(merged_questions_payload),
                                    !.confidence_score = min_confidence(confidence_scores),
                                    !.model_used = result_model]

labels_and_marks(qs) == [i \in 1..Len(qs) |-> [label |-> qs[i].label, max_marks |-> qs[i].max_marks]]

\* The handler has returned; its locals are gone.
parse_return ==
    /\ pc = "done"
    /\ UNCHANGED outside_parse
    /\ pc' = "idle"
    /\ stage' = NoStage
    /\ page_index' = 0
    /\ page_count' = 0
    /\ nano_failures' = 0
    /\ attempts' = <<>>
    /\ page_results' = <<>>
    /\ result_model' = ""
    /\ received' = NoResult
    /\ calls' = <<>>
    /\ response' = NoResponse
    /\ before' = NoSnapshot
    /\ last_success' = IF parser.deterministic /\ runs[Len(runs)].status = "success"
                       THEN [valid |-> TRUE, questions |-> labels_and_marks(questions)]
                       ELSE NoSuccess
    /\ UNCHANGED <<db_vars, parser>>

Next ==
    \/ create_exam
    \/ upload_exam_key_files
    \/ build_exam_key_pages
    \/ create_question
    \/ complete_key_review
    \/ parse_begin
    \/ parse_call_nano
    \/ parse_call_mini_after_failure
    \/ parse_call_mini_escalation
    \/ parse_save_questions
    \/ parse_return

Spec == Init /\ [][Next]_vars

(* ------------------ the handler behind a stub parser ------------------- *)
\* A stub parser answers a call by the model asked for and the page: n1, m1
\* on the first page, n, m on every other page.
StubTable(n1, m1, n, m) ==
    [k \in {NanoModel, MiniModel} \X (1..MaxKeyFiles) |->
        IF k[1] = NanoModel
        THEN (IF k[2] = 1 THEN n1 ELSE n)
        ELSE (IF k[2] = 1 THEN m1 ELSE m)]

Stub(n1, m1, n, m) == [deterministic |-> TRUE, table |-> StubTable(n1, m1, n, m)]

MockQuestion(label, max_marks) ==
    [RawQuestion(label, Num(max_marks)) EXCEPT
        !.evidence = <<[page_number |-> 1, kind |-> "question_box"]>>]

\* MockAnswerKeyParser: nothing from nano, Q1 and Q2 from mini, on every page.
MockAnswerKeyParser ==
    Stub(Success(NanoModel, Payload(Num(40), TRUE, <<>>, <<>>)),
         Success(MiniModel, Payload(Num(80), TRUE, <<MockQuestion("Q1", 5), MockQuestion("Q2", 3)>>, <<>>)),
         Success(NanoModel, Payload(Num(40), TRUE, <<>>, <<>>)),
         Success(MiniModel, Payload(Num(80), TRUE, <<MockQuestion("Q1", 5), MockQuestion("Q2", 3)>>, <<>>)))

\* The parsers injected in place of the live client: the mock, and stubs
\* that answer with the same label on two pages, with a failing nano tier,
\* with nothing at all, with a weak first page, and with a failing mini tier.
StubParsers ==
    {MockAnswerKeyParser,
     Stub(Success(NanoModel, Payload(Num(80), TRUE, <<RawQuestion("Q1", Num(3))>>, <<>>)),
          Failure(500),
          Success(NanoModel, Payload(Num(80), TRUE, <<RawQuestion("Q1", Num(5))>>, <<>>)),
          Failure(500)),
     Stub(Failure(504),
          Success(MiniModel, Payload(Num(80), TRUE, <<RawQuestion("Q2", Num(3))>>, <<>>)),
          Success(NanoModel, Payload(Num(80), TRUE, <<RawQuestion("Q1", Num(3))>>, <<>>)),
          Failure(504)),
     Stub(Success(NanoModel, Payload(Num(80), TRUE, <<>>, <<>>)),
          Success(MiniModel, Payload(NotNum, TRUE, <<>>, <<>>)),
          Success(NanoModel, Payload(Num(80), TRUE, <<>>, <<>>)),
          Success(MiniModel, Payload(NotNum, TRUE, <<>>, <<>>))),
     Stub(Success(NanoModel, Payload(Num(40), TRUE, <<RawQuestion("Q1", Num(3))>>, <<"model warning">>)),
          Success(MiniModel, Payload(Num(80), TRUE, <<RawQuestion("Q1", Num(5))>>, <<>>)),
          Success(MiniModel, Payload(Num(80), TRUE, <<RawQuestion("Q2", Num(3))>>, <<>>)),
          Failure(500)),
     Stub(Success(NanoModel, Payload(Num(80), TRUE, <<RawQuestion("Q1", Num(3))>>, <<>>)),
          Failure(504),
          Failure(504),
          Failure(504))}

InitStub ==
    DbInit /\ LocalsInit /\ SessionsIdle /\ parser \in StubParsers /\ BulkIdle /\ ClientIdle /\ SchemaIdle
    /\ ValidatorIdle

SpecStub == InitStub /\ [][Next]_vars

(* ------------------------ bulk segmentation --------------------------- *)
NoName == ""        \* student_name is None
BlankName == "  "   \* a student_name of white space
strip_nothing(name) == name

strip(name) == IF name = BlankName THEN "" ELSE name

Detection(student_name, confidence) == [student_name |-> student_name, confidence |-> confidence]

\* What the name detector may report for a page; a confidence c in [0,1] is
\* the integer 100*c.
DetectionKinds ==
    {Detection(NoName, 0), Detection(BlankName, 70),
     Detection("Alice", 90), Detection("Alice", 30),
     Detection("Bob", 80), Detection("Alise", 70)}

Rosters == {<<>>, <<"Alice", "Bob">>}
MinPagesChoices == {1, 2}

\* The detections of an upload of n pages: page_number is the position.
Detections(n) ==
    {[i \in 1..n |-> [page_number |-> i, student_name |-> k[i].student_name,
                      confidence |-> k[i].confidence]] : k \in [1..n -> DetectionKinds]}

\* 100 * SequenceMatcher(None, a.lower(), b.lower()).ratio() for the names used.
similarity(a, b) ==
    IF a = b THEN 100
    ELSE IF {a, b} = {"Alice", "Alise"} THEN 80
    ELSE 0

RECURSIVE nearest_loop(_, _, _, _, _)
nearest_loop(name, names, i, best, best_score) ==
    IF i > Len(names)
    THEN (IF best_score >= ROSTER_MATCH_THRESHOLD THEN best ELSE name)
    ELSE LET score == similarity(name, names[i])
         IN IF score > best_score
            THEN nearest_loop(name, names, i + 1, names[i], score)
            ELSE nearest_loop(name, names, i + 1, best, best_score)

\* _nearest_roster_name
nearest_roster_name(name, names) ==
    IF names = <<>> THEN name ELSE nearest_loop(name, names, 1, name, 0)

RECURSIVE sum(_, _)
sum(xs, n) == IF n = 0 THEN 0 ELSE sum(xs, n - 1) + xs[n]

\* round(sum(confidences) / len(confidences), 3), in thousandths.
round3(total, n) == (total * 10 * 2 + n) \div (2 * n)

avg_conf(confs) == IF confs # <<>> THEN round3(sum(confs, Len(confs)), Len(confs)) ELSE 0

AmbiguousPageWarning(page) == [kind |-> "ambiguous_page", page |-> page, name |-> ""]
FewerPagesWarning(name) == [kind |-> "fewer_than_min_pages", page |-> 0, name |-> name]

\* The flag finalize gives the candidate it closes.
candidate_needs_review_unnamed_ok(needs_review, name, start, end_page, min_pages) ==
    needs_review \/ (end_page - start + 1) < min_pages

candidate_needs_review(needs_review, name, start, end_page, min_pages) ==
    needs_review \/ name = UnknownStudent \/ (end_page - start + 1) < min_pages

\* The inner function finalize: the candidates and warnings after it.
finalize(end_page, needs_review) ==
    IF end_page < current_start
    THEN [candidates |-> candidates, warnings |-> warnings]
    ELSE [candidates |-> Append(candidates,
                [student_name |-> current_name,
                 confidence |-> avg_conf(confidences),
                 page_start |-> current_start,
                 page_end |-> end_page,
                 needs_review |-> candidate_needs_review(needs_review, current_name, current_start,
                                                         end_page, min_pages_per_student)]),
          warnings |-> IF (end_page - current_start + 1) < min_pages_per_student
                       THEN Append(warnings, FewerPagesWarning(current_name))
                       ELSE warnings]

\* The page at which the current candidate is closed when a new name starts.
end_of_previous_at_same_page(page_number) == page_number

\* A close that leaves the page before the new name to no candidate.
end_of_previous_two_back(page_number) == page_number - 2

end_of_previous(page_number) == page_number - 1

\* A synthetic confidence that is the floor whatever came before.
synthetic_confidence_floor(confs) == SYNTHETIC_CONFIDENCE

\* The confidence appended for a nameless page within the tolerance.
synthetic_confidence(confs) ==
    LET last == IF confs # <<>> THEN confs[Len(confs)] ELSE SYNTHETIC_CONFIDENCE
    IN IF last > SYNTHETIC_CONFIDENCE THEN last ELSE SYNTHETIC_CONFIDENCE

\* ---- _segment_bulk_candidates, one action per step of its loop
bulk_locals == <<det_index, current_name, current_start, confidences, missing_run,
                 candidates, warnings>>
bulk_request == <<detections, roster, bulk_pages, bulk_found>>
finalize_vars == <<submitted, submissions, finalize_response>>

max(a, b) == IF a > b THEN a ELSE b

segment_begin ==
    /\ seg_pc = "uploaded"
    /\ min_pages_per_student' = max(min_pages_per_student, 1)
    /\ candidates' = <<>>
    /\ warnings' = <<>>
    /\ IF detections = <<>>
       THEN /\ seg_pc' = "preview"
            /\ submitted' = <<>>
            /\ UNCHANGED <<det_index, current_name, current_start, confidences, missing_run>>
       ELSE /\ seg_pc' = "loop"
            /\ current_name' = UnknownStudent
            /\ current_start' = detections[1].page_number
            /\ confidences' = <<>>
            /\ missing_run' = 0
            /\ det_index' = 1
            /\ UNCHANGED submitted
    /\ UNCHANGED <<bulk_request, submissions, finalize_response, outside_bulk>>

\* A named page that closes the candidate of the sentinel name as well.
segment_named_page_closing_unknown(det, proposed_name) ==
    IF proposed_name # current_name
    THEN /\ candidates' = finalize(end_of_previous(det.page_number), FALSE).candidates
         /\ warnings' = finalize(end_of_previous(det.page_number), FALSE).warnings
         /\ current_name' = proposed_name
         /\ current_start' = det.page_number
         /\ confidences' = <<det.confidence>>
         /\ missing_run' = 0
    ELSE /\ confidences' = Append(confidences, det.confidence)
         /\ missing_run' = 0
         /\ UNCHANGED <<current_name, current_start, candidates, warnings>>

\* The branch of the loop for a page with a name.
segment_named_page(det, proposed_name) ==
    IF current_name = UnknownStudent
    THEN /\ current_name' = proposed_name
         /\ confidences' = <<det.confidence>>
         /\ missing_run' = 0
         /\ UNCHANGED <<current_start, candidates, warnings>>
    ELSE IF proposed_name # current_name
    THEN /\ candidates' = finalize(end_of_previous(det.page_number), FALSE).candidates
         /\ warnings' = finalize(end_of_previous(det.page_number), FALSE).warnings
         /\ current_name' = proposed_name
         /\ current_start' = det.page_number
         /\ confidences' = <<det.confidence>>
         /\ missing_run' = 0
    ELSE /\ confidences' = Append(confidences, det.confidence)
         /\ missing_run' = 0
         /\ UNCHANGED <<current_name, current_start, candidates, warnings>>

\* A nameless page that is carried silently however long the run is.
segment_nameless_page_silent(det) ==
    /\ missing_run' = missing_run + 1
    /\ confidences' = Append(confidences, synthetic_confidence(confidences))
    /\ UNCHANGED <<current_name, current_start, candidates, warnings>>

\* The branch of the loop for a page without a name.
segment_nameless_page(det) ==
    /\ missing_run' = missing_run + 1
    /\ IF missing_run + 1 > MAX_CARRY_FORWARD_PAGES
       THEN /\ warnings' = Append(warnings, AmbiguousPageWarning(det.page_number))
            /\ confidences' = Append(confidences, 0)
       ELSE /\ confidences' = Append(confidences, synthetic_confidence(confidences))
            /\ UNCHANGED warnings
    /\ UNCHANGED <<current_name, current_start, candidates>>

segment_page ==
    /\ seg_pc = "loop"
    /\ det_index <= Len(detections)
    /\ LET det == detections[det_index]
           proposed_name == strip(det.student_name)
       IN IF proposed_name # ""
          THEN segment_named_page(det, nearest_roster_name(proposed_name, roster))
          ELSE segment_nameless_page(det)
    /\ det_index' = det_index + 1
    /\ UNCHANGED <<seg_pc, min_pages_per_student, bulk_request, finalize_vars, outside_bulk>>

\* The final finalize and the return; the client then submits the candidates
\* as proposed.
to_submitted(cands) ==
    [i \in 1..Len(cands) |-> [student_name |-> cands[i].student_name,
                              page_start |-> cands[i].page_start,
                              page_end |-> cands[i].page_end]]

segment_return ==
    /\ seg_pc = "loop"
    /\ det_index > Len(detections)
    /\ LET last == finalize(detections[Len(detections)].page_number,
                            missing_run > MAX_CARRY_FORWARD_PAGES)
       IN /\ candidates' = last.candidates
          /\ warnings' = last.warnings
          /\ submitted' = to_submitted(last.candidates)
    /\ seg_pc' = "preview"
    /\ UNCHANGED <<det_index, current_name, current_start, confidences, missing_run,
                   min_pages_per_student, bulk_request, submissions, finalize_response,
                   outside_bulk>>

\* ---- finalize_bulk_submission_preview
range(a, b) == a..b

RECURSIVE validate_candidates_ranges_only(_, _, _, _)
validate_candidates_ranges_only(cands, i, max_page, used_pages) ==
    IF i > Len(cands) THEN [status_code |-> 200, detail |-> "", used_pages |-> used_pages]
    ELSE LET candidate == cands[i]
         IN IF candidate.page_start < 1 \/ candidate.page_end > max_page
               \/ candidate.page_end < candidate.page_start
            THEN [status_code |-> 400, detail |-> "Invalid page range", used_pages |-> used_pages]
            ELSE validate_candidates_ranges_only(cands, i + 1, max_page,
                     used_pages \cup range(candidate.page_start, candidate.page_end))

\* The validation loop: the first error, and the pages used when there is none.
RECURSIVE validate_candidates(_, _, _, _)
validate_candidates(cands, i, max_page, used_pages) ==
    IF i > Len(cands) THEN [status_code |-> 200, detail |-> "", used_pages |-> used_pages]
    ELSE LET candidate == cands[i]
         IN IF candidate.page_start < 1 \/ candidate.page_end > max_page
               \/ candidate.page_end < candidate.page_start
            THEN [status_code |-> 400, detail |-> "Invalid page range", used_pages |-> used_pages]
            ELSE IF range(candidate.page_start, candidate.page_end) \cap used_pages # {}
            THEN [status_code |-> 400, detail |-> "Overlapping page range", used_pages |-> used_pages]
            ELSE validate_candidates(cands, i + 1, max_page,
                                     used_pages \cup range(candidate.page_start, candidate.page_end))

CoverageWarning == "Candidate ranges do not cover all pages."

\* The rows the second loop writes for one candidate: a Submission, its one
\* SubmissionFile and a SubmissionPage for every page of the range.
created_rows(candidate) ==
    [student_name |-> candidate.student_name,
     status |-> "UPLOADED",
     files |-> <<"pdf">>,
     pages |-> [idx \in 1..(candidate.page_end - candidate.page_start + 1) |->
                    [page_number |-> idx, source_page |-> candidate.page_start + idx - 1]]]

finalize_bulk_submission_preview ==
    /\ seg_pc = "preview"
    /\ seg_pc' = "finalized"
    /\ IF ~bulk_found
       THEN /\ finalize_response' = [NoFinalizeResponse EXCEPT !.status_code = 404,
                                                               !.detail = "Bulk upload not found"]
            /\ UNCHANGED submissions
       ELSE IF bulk_pages = <<>>
       THEN /\ finalize_response' = [NoFinalizeResponse EXCEPT !.status_code = 400,
                                                               !.detail = "No rendered pages available"]
            /\ UNCHANGED submissions
       ELSE LET max_page == bulk_pages[Len(bulk_pages)]
                checked == validate_candidates(submitted, 1, max_page, {})
                created == [i \in 1..Len(submitted) |-> created_rows(submitted[i])]
            IN IF checked.status_code # 200
               THEN /\ finalize_response' = [NoFinalizeResponse EXCEPT
                                                 !.status_code = checked.status_code,
                                                 !.detail = checked.detail]
                    /\ UNCHANGED submissions
               ELSE /\ submissions' = submissions \o created
                    /\ finalize_response' =
                           [status_code |-> 200, detail |-> "", submissions |-> created,
                            warnings |-> IF checked.used_pages # range(1, max_page)
                                         THEN <<CoverageWarning>> ELSE <<>>]
    /\ UNCHANGED <<bulk_locals, min_pages_per_student, bulk_request, submitted, outside_bulk>>

NextBulk ==
    \/ segment_begin
    \/ segment_page
    \/ segment_return
    \/ finalize_bulk_submission_preview

\* The pages rendered for an upload of n pages.
BulkPages(n) == [i \in 1..n |-> i]

\* A bulk PDF has been uploaded and its pages rendered and detected.
InitUploaded ==
    /\ \E n \in 0..MaxBulkPages :
          /\ detections \in Detections(n)
          /\ bulk_pages = BulkPages(n)
    /\ roster \in Rosters
    /\ min_pages_per_student \in {0} \cup MinPagesChoices
    /\ seg_pc = "uploaded"
    /\ bulk_found = TRUE
    /\ det_index = 0
    /\ current_name = UnknownStudent
    /\ current_start = 0
    /\ confidences = <<>>
    /\ missing_run = 0
    /\ candidates = <<>>
    /\ warnings = <<>>
    /\ submitted = <<>>
    /\ submissions = <<>>
    /\ finalize_response = NoFinalizeResponse

\* The candidates of a finalize request the client has edited.
Ranges(max_page) ==
    {[page_start |-> a, page_end |-> b] : a \in 0..(max_page + 1), b \in 0..(max_page + 1)}

named(r, student_name) ==
    [student_name |-> student_name, page_start |-> r.page_start, page_end |-> r.page_end]

EditedPayloads(max_page) ==
    {<<>>}
    \cup {<<named(r, "Alice")>> : r \in Ranges(max_page)}
    \cup {<<named(r1, "Alice"), named(r2, "Bob")>> : r1 \in Ranges(max_page), r2 \in Ranges(max_page)}

\* A finalize request with edited candidates arrives for a stored upload, or
\* for one that does not exist.
InitEdited ==
    /\ \E n \in 0..MaxBulkPages :
          /\ bulk_pages = BulkPages(n)
          /\ submitted \in {p \in EditedPayloads(n) : Len(p) <= MaxSubmitted}
    /\ bulk_found \in BOOLEAN
    /\ bulk_found = FALSE => bulk_pages = <<>>
    /\ detections = <<>>
    /\ roster = <<>>
    /\ min_pages_per_student = 1
    /\ seg_pc = "preview"
    /\ det_index = 0
    /\ current_name = UnknownStudent
    /\ current_start = 0
    /\ confidences = <<>>
    /\ missing_run = 0
    /\ candidates = <<>>
    /\ warnings = <<>>
    /\ submissions = <<>>
    /\ finalize_response = NoFinalizeResponse

InitBulk ==
    /\ DbInit /\ LocalsInit /\ SessionsIdle /\ parser = LiveParser /\ ClientIdle /\ SchemaIdle /\ ValidatorIdle
    /\ (InitUploaded \/ InitEdited)

SpecBulk == InitBulk /\ [][NextBulk]_vars

(* ---------------- the handler behind OpenAIAnswerKeyParser -------------- *)
\* The payloads the service answers with: a confident one with a question,
\* a confident one without, a weak one, and one that does not validate.
ClientPayloads ==
    {Payload(Num(80), TRUE, <<RawQuestion("Q1", Num(3))>>, <<>>),
     Payload(Num(80), TRUE, <<>>, <<>>),
     Payload(Num(40), TRUE, <<RawQuestion("Q1", Num(3))>>, <<"model warning">>),
     Payload(NotNum, TRUE, <<>>, <<>>)}

ClientOutcomes ==
    {TimedOut, NotJson}
    \cup {StatusError(st) : st \in {429, 503, 504, 500}}
    \cup {Answer(p) : p \in ClientPayloads}

\* The status_code of the OpenAIRequestError built for a failed call; 0 is None.
status_code_of(r) == IF r.kind = "timeout" THEN 504 ELSE r.status_code

RetryableStatuses == {429, 503, 504}

retryable_also_500(r) == r.kind = "timeout" \/ status_code_of(r) \in {429, 500, 503, 504}

retryable(r) == r.kind = "timeout" \/ status_code_of(r) \in RetryableStatuses

endswith_mini(model) == model = MiniModel
endswith_nano(model) == model = NanoModel

backoffs_of(model) ==
    IF endswith_mini(model) THEN parser.mini_retry_backoffs_seconds
    ELSE parser.retry_backoffs_seconds

attempts_of(backoffs) == Len(backoffs) + 1

\* _call_openai_with_retry is entered for `model`.
retry_enter(model) ==
    /\ retry_pc' = "loop"
    /\ retry_model' = model
    /\ retry_attempt' = 0
    /\ retry_calls' = 0
    /\ slept' = <<>>
    /\ last_outcome' = NoOutcome

count_created(model, r) ==
    [nano |-> client_calls.nano + (IF endswith_nano(model) THEN 1 ELSE 0),
     mini |-> client_calls.mini + (IF endswith_mini(model) THEN 1 ELSE 0),
     timeouts |-> client_calls.timeouts + (IF r.kind = "timeout" THEN 1 ELSE 0),
     other_errors |-> client_calls.other_errors + (IF r.kind \in {"status", "not_json"} THEN 1 ELSE 0)]

\* The handler is at a parser call and the parser has not been entered for it.
openai_parse_begin ==
    /\ IsOpenAI(parser)
    /\ pc \in {"call_nano", "call_mini_after_failure", "call_mini_escalation"}
    /\ openai_key # <<Len(runs), Len(calls)>>
    /\ openai_key' = <<Len(runs), Len(calls)>>
    /\ openai_pc' = "primary"
    /\ parse_result' = NoResult
    /\ retry_enter(IF pc = "call_nano" THEN NanoModel ELSE MiniModel)
    /\ client_calls' = IF calls = <<>> THEN NoneCreated ELSE client_calls
    /\ UNCHANGED outside_client

\* One iteration of the loop of _call_openai_with_retry: the call and, when
\* it fails, the except clause.
call_openai_with_retry ==
    /\ retry_pc = "loop"
    /\ \E r \in ClientOutcomes :
          /\ last_outcome' = r
          /\ client_calls' = count_created(retry_model, r)
          /\ IF r.kind = "ok"
             THEN /\ retry_pc' = "returned"
                  /\ UNCHANGED <<retry_attempt, slept>>
             ELSE IF retryable(r) /\ retry_attempt < attempts_of(backoffs_of(retry_model)) - 1
             THEN /\ slept' = Append(slept, backoffs_of(retry_model)[retry_attempt + 1])
                  /\ retry_attempt' = retry_attempt + 1
                  /\ retry_pc' = "loop"
             ELSE /\ retry_pc' = "raised"
                  /\ UNCHANGED <<retry_attempt, slept>>
    /\ retry_calls' = retry_calls + 1
    /\ UNCHANGED <<openai_pc, openai_key, parse_result, retry_model, outside_client>>

\* OpenAIAnswerKeyParser.parse after a _parse_model_batches call: the error
\* propagates, the result is returned, or a nano result without questions is
\* followed by the batches on mini.
openai_parse_continue ==
    /\ openai_pc \in {"primary", "fallback"}
    /\ retry_pc \in {"returned", "raised"}
    /\ IF retry_pc = "raised"
       THEN /\ parse_result' = Failure(status_code_of(last_outcome))
            /\ openai_pc' = "done"
            /\ UNCHANGED <<retry_pc, retry_model, retry_attempt, retry_calls, slept, last_outcome>>
       ELSE IF openai_pc = "primary" /\ endswith_nano(retry_model)
               /\ ~(last_outcome.payload.questions_is_list /\ last_outcome.payload.questions # <<>>)
       THEN /\ openai_pc' = "fallback"
            /\ retry_enter(MiniModel)
            /\ UNCHANGED parse_result
       ELSE /\ parse_result' = Success(retry_model, last_outcome.payload)
            /\ openai_pc' = "done"
            /\ UNCHANGED <<retry_pc, retry_model, retry_attempt, retry_calls, slept, last_outcome>>
    /\ UNCHANGED <<openai_key, client_calls, outside_client>>

\* The parsers the service is built with: the default schedules, the
\* schedules of the retry test, and a fast tier without retries.
OpenAIParsers ==
    {OpenAIParser(<<1, 2>>, <<>>), OpenAIParser(<<0, 0>>, <<>>), OpenAIParser(<<>>, <<1>>)}

\* An exam whose key file, one image, has been uploaded.
InitClient ==
    /\ exam_status = status_after_upload("DRAFT")
    /\ key_files = <<ImageFile>>
    /\ key_pages = <<>>
    /\ questions = <<>>
    /\ manual_count = 0
    /\ runs = <<>>
    /\ last_success = NoSuccess
    /\ LocalsInit /\ SessionsIdle
    /\ parser \in OpenAIParsers
    /\ BulkIdle
    /\ ClientIdle
    /\ SchemaIdle
    /\ ValidatorIdle

NextClient ==
    \/ parse_begin
    \/ openai_parse_begin
    \/ call_openai_with_retry
    \/ openai_parse_continue
    \/ parse_call_nano
    \/ parse_call_mini_after_failure
    \/ parse_call_mini_escalation
    \/ parse_save_questions
    \/ parse_return

SpecClient == InitClient /\ [][NextClient]_vars

(* ============================ properties ============================== *)
LastRun == runs[Len(runs)]
InPageLoopOrSave == pc \in {"call_nano", "call_mini_after_failure", "call_mini_escalation", "save"}
Returned == pc = "done"
RunFailed == Returned /\ LastRun.status = "failed"
RunSucceeded == Returned /\ LastRun.status = "success"

\* The parser calls of this invocation made for page i, in order.
CallsForPage(i) == SelectSeq(calls, LAMBDA c : c.page_index = i)
NanoCall(i) == [page_index |-> i, model |-> NanoModel]
MiniCall(i) == [page_index |-> i, model |-> MiniModel]

\* The number of Question rows that carry the label.
RowsWithLabel(qs, l) == Cardinality({i \in 1..Len(qs) : qs[i].label = l})

(* ------------------------------- C1 ----------------------------------- *)
\* C1: every parse invocation adds exactly one run row, which is "running"
\* while the handler works; when the handler returns, on any path, that row
\* is "success" or "failed" with finished_at set; the rows of earlier runs
\* are as they were.
C1_RunIsCreatedAndFinalized ==
    /\ pc # "idle" =>
          /\ Len(runs) = Len(before.runs) + 1
          /\ SubSeq(runs, 1, Len(before.runs)) = before.runs
    /\ InPageLoopOrSave => (LastRun.status = "running" /\ ~LastRun.finished_at)
    /\ Returned => (LastRun.status \in {"success", "failed"} /\ LastRun.finished_at)

\* A second invocation has returned failed after a first one that succeeded.
C1_Witness ==
    /\ Returned
    /\ Len(runs) = 2
    /\ runs[1].status = "success"
    /\ runs[2].status = "failed"
    /\ runs[2].finished_at

(* ------------------------------- C2 ----------------------------------- *)
\* C2: when the run ends failed, the Question rows and their evidence rows
\* are exactly the rows from before the run.
C2_FailedRunLeavesQuestions ==
    RunFailed => questions = before.questions

(* ------------------------------- C3 ----------------------------------- *)
\* C3: a step in which the nano call returns a fast-tier result that has no
\* questions after validation (an invalid payload included) or a confidence
\* below 0.60 goes to one mini call for the same page without accumulating
\* anything; the step of that mini call, when the call succeeds, accumulates
\* the mini result as the page's result, after exactly the calls nano, mini
\* for the page, and leaves the page.
C3_StepEscalates ==
    LET v == validated_or_invalid(received'.payload)
    IN (/\ pc = "call_nano"
        /\ attempts' = Append(attempts, attempt(NanoModel, page_index, FALSE))
        /\ received'.model = NanoModel
        /\ (v.questions = <<>> \/ v.confidence < EscalationThreshold))
       => /\ pc' = "call_mini_escalation"
          /\ page_index' = page_index
          /\ page_results' = page_results

C3_StepAcceptsMini ==
    (pc = "call_mini_escalation" /\ pc' # "done")
       => /\ received'.model = MiniModel
          /\ page_results' = Append(page_results, page_result(received'.payload, page_index))
          /\ calls' = Append(calls, MiniCall(page_index))
          /\ SelectSeq(calls', LAMBDA c : c.page_index = page_index)
                = <<NanoCall(page_index), MiniCall(page_index)>>
          /\ pc' \in {"call_nano", "save"}
          /\ pc' = "call_nano" => page_index' = page_index + 1

C3_EscalationRunsMiniOnce == [][C3_StepEscalates /\ C3_StepAcceptsMini]_vars

\* The strong-tier result of an escalated second page has been accumulated
\* in place of a weak fast-tier result that had a question.
C3_Witness ==
    /\ pc = "save"
    /\ Len(page_results) = 2
    /\ CallsForPage(2) = <<NanoCall(2), MiniCall(2)>>
    /\ attempts[Len(attempts) - 1] = attempt(NanoModel, 2, FALSE)
    /\ received.model = MiniModel
    /\ page_results[2] = page_result(received.payload, 2)
    /\ page_results[2].questions # <<>>

(* ------------------------------- C4 ----------------------------------- *)
\* The handler has returned after a failed nano call and a failed mini call
\* for the same page: the latest attempt recorded is the failed nano call and
\* the latest call is the mini call that recorded none.
BothTiersFailedOnPage(i) ==
    /\ Returned
    /\ attempts # <<>>
    /\ attempts[Len(attempts)] = attempt(NanoModel, i, TRUE)
    /\ calls # <<>>
    /\ calls[Len(calls)] = MiniCall(i)

\* C4: when the nano call and the mini call that follows it both fail on
\* page i, the handler returns at once: no call was made for a later page,
\* the run is failed and records page i, and the response is a 504 that
\* names page i.
C4_BothTiersFailedAborts ==
    \A i \in 1..MaxKeyFiles :
        BothTiersFailedOnPage(i) =>
            /\ \A k \in 1..Len(calls) : calls[k].page_index <= i
            /\ CallsForPage(i) = <<NanoCall(i), MiniCall(i)>>
            /\ LastRun.status = "failed"
            /\ LastRun.finished_at
            /\ LastRun.error.page_index = i
            /\ response.status_code = 504
            /\ response.page_index = i
            /\ response.detail = "OpenAI timed out on page"

\* Both tiers failed on the first of two pages, the mini call with a status
\* other than 504.
C4_Witness ==
    /\ BothTiersFailedOnPage(1)
    /\ page_count = 2
    /\ response.openai_status = 500
    /\ response.status_code = 504

(* ------------------------------- C5 ----------------------------------- *)
\* C5: a step in which the nano call fails, with any upstream status, goes
\* to one mini call for the same page; the step of that mini call, when the
\* call succeeds, accumulates the mini result as the page's result after
\* exactly the calls nano, mini for the page, and goes on to the next page
\* (or to the save step after the last page).
C5_StepFallsBack ==
    (pc = "call_nano" /\ attempts' = Append(attempts, attempt(NanoModel, page_index, TRUE)))
       => /\ pc' = "call_mini_after_failure"
          /\ page_index' = page_index
          /\ page_results' = page_results

C5_StepAcceptsMini ==
    (pc = "call_mini_after_failure" /\ pc' # "done")
       => /\ page_results' = Append(page_results, page_result(received'.payload, page_index))
          /\ SelectSeq(calls', LAMBDA c : c.page_index = page_index)
                = <<NanoCall(page_index), MiniCall(page_index)>>
          /\ IF page_index < page_count
             THEN pc' = "call_nano" /\ page_index' = page_index + 1
             ELSE pc' = "save"

C5_NanoFailureFallsBackOnce == [][C5_StepFallsBack /\ C5_StepAcceptsMini]_vars

\* The nano call of the first of two pages failed, the mini call gave a weak
\* result, and the loop is at the nano call of the second page.
C5_Witness ==
    /\ pc = "call_nano"
    /\ page_index = 2
    /\ calls = <<NanoCall(1), MiniCall(1)>>
    /\ attempts = <<attempt(NanoModel, 1, TRUE), attempt(MiniModel, 1, FALSE)>>
    /\ Len(page_results) = 1
    /\ page_results[1].confidence < 60

C7_ReadyIsTerminal == [][exam_status = "READY" => exam_status' = "READY"]_vars

\* C7: READY is entered only by the review-complete handler, never by a step
\* of the parse handler; it is left only by a key upload (to KEY_UPLOADED),
\* by a page build or by the first step of a parse (to KEY_PAGES_READY).
C7_StepIntoReady ==
    (exam_status # "READY" /\ exam_status' = "READY")
       => /\ pc = "idle" /\ pc' = "idle"
          /\ UNCHANGED <<key_files, key_pages, questions, manual_count, runs>>

C7_StepOutOfReady ==
    (exam_status = "READY" /\ exam_status' # "READY")
       => \/ /\ exam_status' = "KEY_UPLOADED"
             /\ Len(key_files') = Len(key_files) + 1
          \/ /\ exam_status' = "KEY_PAGES_READY"
             /\ pc = "idle"
             /\ key_pages' # <<>>
             /\ UNCHANGED <<key_files, questions>>

C7_ReadyOnlyByReview == [][C7_StepIntoReady /\ C7_StepOutOfReady]_vars

\* A parse of an exam that was READY has succeeded and left it REVIEWING.
C7_Witness ==
    /\ RunSucceeded
    /\ before.exam_status = "READY"
    /\ exam_status = "REVIEWING"

(* ------------------------------- C8 ----------------------------------- *)
\* C8: when the run ends in success, the exam is REVIEWING if the run wrote
\* at least one question and PARSED otherwise, and in the PARSED case the
\* response carries at least one warning.
C8_SuccessStatus ==
    RunSucceeded =>
        /\ response.status_code = 200
        /\ response.questions_count >= 1 => exam_status = "REVIEWING"
        /\ response.questions_count = 0 =>
              /\ exam_status = "PARSED"
              /\ response.warnings # <<>>
              /\ questions = before.questions

\* A two-page run without any question has succeeded on an exam that was
\* REVIEWING.
C8_Witness ==
    /\ RunSucceeded
    /\ page_count = 2
    /\ response.questions_count = 0
    /\ before.exam_status = "REVIEWING"
    /\ exam_status = "PARSED"
    /\ Len(response.warnings) >= 2

(* ------------------------------- C9 ----------------------------------- *)
\* The pages of this invocation whose accumulated result has the label.
PagesWithLabel(l) ==
    {i \in 1..Len(page_results) :
        \E k \in 1..Len(page_results[i].questions) : page_results[i].questions[k].label = l}

\* C9: when a successful run extracted the same label from two pages, and
\* at most one Question carried the label before, exactly one Question
\* carries it afterwards.
C9_OneQuestionPerLabel ==
    \A l \in Labels :
        (/\ RunSucceeded
         /\ Cardinality(PagesWithLabel(l)) >= 2
         /\ RowsWithLabel(before.questions, l) <= 1)
           => RowsWithLabel(questions, l) = 1

(* ------------------------------- C10 ---------------------------------- *)
\* C10: behind a deterministic stub parser, a successful parse that follows
\* a successful parse, with no question created in between and the key pages
\* unchanged, leaves the same questions as the first did: the same count,
\* the same labels and the same max_marks for every label.
C10_ReparseIsIdempotent ==
    (RunSucceeded /\ last_success.valid)
       => labels_and_marks(questions) = last_success.questions

\* A second successful parse behind the mock parser, over two pages.
C10_Witness ==
    /\ RunSucceeded
    /\ last_success.valid
    /\ Len(runs) = 2
    /\ page_count = 2
    /\ Len(questions) >= 2
    /\ parser = MockAnswerKeyParser

(* ------------------------------- C11 ---------------------------------- *)
\* The confidence of an accepted result: that of its payload, or 0 when the
\* payload does not validate.
AcceptedConfidence(result) ==
    IF validate_parse_payload(result.payload).raised THEN 0
    ELSE result.payload.confidence_score.val

\* C11: the confidence reported by a successful parse is the least of the
\* per-page confidences: it is the confidence of some page and no page has
\* a lower one, so it is at most what the pages before the last alone would
\* give; there is one confidence per page, and the last page's is that of
\* its accepted result, 0 when the payload failed validation.
C11_ConfidenceIsMinimum ==
    RunSucceeded =>
        /\ Len(page_results) = page_count
        /\ \A i \in 1..page_count : response.confidence_score <= page_results[i].confidence
        /\ \E i \in 1..page_count : response.confidence_score = page_results[i].confidence
        /\ page_results[page_count].confidence = AcceptedConfidence(received)

\* A confident first page followed by a second page whose payload failed
\* validation: the run reports 0.
C11_Witness ==
    /\ RunSucceeded
    /\ page_count = 2
    /\ page_results[1].confidence = 80
    /\ validate_parse_payload(received.payload).raised
    /\ page_results[2].confidence = 0
    /\ response.confidence_score = 0

(* ------------------------- bulk segmentation -------------------------- *)
\* Segmentation has returned its candidates and warnings.
Segmented == seg_pc \in {"preview", "finalized"} /\ detections # <<>>

pages_of(c) == c.page_start..c.page_end
Nameless(p) == detections[p].student_name \in {NoName, BlankName}
LastCandidate == candidates[Len(candidates)]
CandidateOf(p) == CHOOSE i \in 1..Len(candidates) : p \in pages_of(candidates[i])

\* The number of consecutive nameless pages that end at page p.
RECURSIVE RunAt(_)
RunAt(p) == IF p = 0 THEN 0 ELSE IF Nameless(p) THEN RunAt(p - 1) + 1 ELSE 0

TrailingRun == RunAt(Len(detections))

\* C12: the ranges of the candidates segmentation returns are pairwise
\* non-overlapping and together are exactly the pages 1..page_count, so no
\* page is left uncovered by a proposal; and a finalize request whose ranges
\* do not cover every page is answered with the "do not cover all pages"
\* warning.
C12_RangesPartitionPages ==
    /\ Segmented =>
          /\ \A i, j \in 1..Len(candidates) :
                 i # j => pages_of(candidates[i]) \cap pages_of(candidates[j]) = {}
          /\ UNION {pages_of(candidates[i]) : i \in 1..Len(candidates)} = 1..Len(bulk_pages)
    /\ (seg_pc = "finalized" /\ finalize_response.status_code = 200) =>
          (UNION {pages_of(submitted[i]) : i \in 1..Len(submitted)} # 1..Len(bulk_pages)
              => \E w \in 1..Len(finalize_response.warnings) :
                     finalize_response.warnings[w] = CoverageWarning)

C12_Witness ==
    /\ Segmented
    /\ Len(detections) = 4
    /\ Len(candidates) = 3
    /\ candidates[2].page_end = candidates[2].page_start + 1

NamesOf(dets) == [i \in 1..Len(dets) |-> dets[i].student_name]
Outline(cands) ==
    [i \in 1..Len(cands) |-> <<cands[i].student_name, cands[i].page_start, cands[i].page_end,
                               cands[i].needs_review>>]

\* C13: a nameless page that follows a named page stays in the candidate of
\* that named page, and a candidate is flagged only for the sentinel name, for
\* too few pages, or as the last candidate with a trailing nameless run beyond
\* the tolerance; the detections Alice, Alice, none, Bob with min-pages 1 give
\* exactly Alice[1,3] and Bob[4,4], neither flagged.
C13_NamelessPageIsCarried ==
    Segmented =>
        /\ \A p \in 2..Len(detections) :
               (Nameless(p) /\ RunAt(p) <= MAX_CARRY_FORWARD_PAGES /\ RunAt(p) < p)
                   => /\ CandidateOf(p) = CandidateOf(p - RunAt(p))
                      /\ candidates[CandidateOf(p)].student_name =
                             nearest_roster_name(detections[p - RunAt(p)].student_name, roster)
        /\ \A i \in 1..Len(candidates) :
               candidates[i].needs_review =>
                   \/ candidates[i].student_name = UnknownStudent
                   \/ candidates[i].page_end - candidates[i].page_start + 1 < min_pages_per_student
                   \/ i = Len(candidates) /\ TrailingRun > MAX_CARRY_FORWARD_PAGES
        /\ (NamesOf(detections) = <<"Alice", "Alice", NoName, "Bob">> /\ min_pages_per_student = 1)
               => Outline(candidates) = << <<"Alice", 1, 3, FALSE>>, <<"Bob", 4, 4, FALSE>> >>

C13_Witness ==
    /\ Segmented
    /\ NamesOf(detections) = <<"Alice", "Alice", NoName, "Bob">>
    /\ min_pages_per_student = 1
    /\ Len(candidates) = 2
    /\ candidates[1].page_end = 3

\* C14: a candidate is flagged whenever its name is the sentinel, or it has
\* fewer pages than min_pages_per_student, or it is the last candidate and
\* the detections end in a nameless run longer than the tolerance.
C14_NeedsReviewIsSet ==
    Segmented =>
        \A i \in 1..Len(candidates) :
            (\/ candidates[i].student_name = UnknownStudent
             \/ candidates[i].page_end - candidates[i].page_start + 1 < min_pages_per_student
             \/ i = Len(candidates) /\ TrailingRun > MAX_CARRY_FORWARD_PAGES)
                => candidates[i].needs_review

C14_Witness ==
    /\ Segmented
    /\ Len(candidates) = 1
    /\ candidates[1].student_name = UnknownStudent
    /\ candidates[1].page_end = 2
    /\ min_pages_per_student = 1
    /\ candidates[1].needs_review

\* The value the algorithm gives page p: the detected confidence of a named
\* page, and for a nameless page 0 beyond the tolerance and otherwise the
\* larger of the previous page's value and the floor.
RECURSIVE PageValue(_)
PageValue(p) ==
    IF ~Nameless(p) THEN detections[p].confidence
    ELSE IF RunAt(p) > MAX_CARRY_FORWARD_PAGES THEN 0
    ELSE IF p = 1 THEN SYNTHETIC_CONFIDENCE
    ELSE max(PageValue(p - 1), SYNTHETIC_CONFIDENCE)

RECURSIVE SumValues(_, _)
SumValues(a, b) == IF b < a THEN 0 ELSE SumValues(a, b - 1) + PageValue(b)

\* C15: the confidence of every candidate is the mean of one value per page
\* of its range, the nameless pages before the first name included.
C15_ConfidenceIsMeanOverRange ==
    Segmented =>
        \A i \in 1..Len(candidates) :
            candidates[i].confidence =
                round3(SumValues(candidates[i].page_start, candidates[i].page_end),
                       candidates[i].page_end - candidates[i].page_start + 1)

\* C16: every flagged candidate has a warning that names it or one of its
\* pages.
C16_FlaggedCandidateHasWarning ==
    Segmented =>
        \A i \in 1..Len(candidates) :
            candidates[i].needs_review =>
                \E w \in 1..Len(warnings) :
                    \/ /\ warnings[w].kind = "fewer_than_min_pages"
                       /\ warnings[w].name = candidates[i].student_name
                    \/ /\ warnings[w].kind = "ambiguous_page"
                       /\ warnings[w].page \in pages_of(candidates[i])

\* A submitted candidate list the validation must reject.
InvalidRanges ==
    \E i \in 1..Len(submitted) :
        \/ submitted[i].page_start < 1
        \/ submitted[i].page_end > Len(bulk_pages)
        \/ submitted[i].page_end < submitted[i].page_start
        \/ \E j \in 1..Len(submitted) :
               j # i /\ pages_of(submitted[i]) \cap pages_of(submitted[j]) # {}

\* C17: finalize of a stored upload rejects a request with a candidate out of
\* range, reversed or sharing a page with HTTP 400 and writes nothing;
\* otherwise it writes one Submission per submitted candidate, each with one
\* file and one page row per page of its range.
C17_FinalizeValidatesBeforeWriting ==
    (seg_pc = "finalized" /\ bulk_found) =>
        IF InvalidRanges
        THEN finalize_response.status_code = 400 /\ submissions = <<>>
        ELSE /\ Len(submissions) = Len(submitted)
             /\ \A i \in 1..Len(submitted) :
                    /\ submissions[i].student_name = submitted[i].student_name
                    /\ Len(submissions[i].files) = 1
                    /\ Len(submissions[i].pages) = submitted[i].page_end - submitted[i].page_start + 1

C17_Witness ==
    /\ seg_pc = "finalized"
    /\ bulk_found
    /\ Len(bulk_pages) = 4
    /\ Len(submitted) = 2
    /\ submitted[1].page_start = 1 /\ submitted[1].page_end = 3
    /\ submitted[2].page_start = 3 /\ submitted[2].page_end = 4
    /\ finalize_response.status_code = 400
    /\ submissions = <<>>

(* ----------------------- retries and validation ----------------------- *)
\* The errors the claim names as retried.
IsTransient(r) ==
    r.kind = "timeout" \/ (r.kind = "status" /\ r.status_code \in {429, 503, 504})

\* C18: within one call of _call_openai_with_retry the loop goes on only
\* after a timeout or a 429, 503 or 504 and only while attempts are left,
\* sleeping the configured delays in order; it makes at most one call more
\* than there are delays; it returns as soon as a call succeeds; and it
\* raises an error of another kind at once and a transient one only when
\* every attempt is used.
C18_RetryPolicy ==
    retry_pc # "idle" =>
        LET backoffs == backoffs_of(retry_model)
        IN /\ retry_calls <= Len(backoffs) + 1
           /\ Len(slept) <= Len(backoffs)
           /\ slept = SubSeq(backoffs, 1, Len(slept))
           /\ retry_pc = "loop" =>
                  /\ retry_calls <= Len(backoffs)
                  /\ Len(slept) = retry_calls
                  /\ retry_calls > 0 => IsTransient(last_outcome)
           /\ retry_pc = "returned" =>
                  /\ last_outcome.kind = "ok"
                  /\ Len(slept) = retry_calls - 1
           /\ retry_pc = "raised" =>
                  /\ last_outcome.kind \in {"timeout", "status", "not_json"}
                  /\ Len(slept) = retry_calls - 1
                  /\ IsTransient(last_outcome) => retry_calls = Len(backoffs) + 1

C18_Witness ==
    /\ retry_pc = "raised"
    /\ retry_model = NanoModel
    /\ parser.retry_backoffs_seconds = <<1, 2>>
    /\ retry_calls = 3
    /\ slept = <<1, 2>>
    /\ last_outcome = StatusError(503)

AttemptsOf(model) == SelectSeq(attempts, LAMBDA a : a.model = model)

\* The client timed out once on the fast tier and then answered the second
\* call with a confident payload that has a question; the exam has one page.
TimedOutOnceThenAnswered ==
    /\ Returned
    /\ IsOpenAI(parser)
    /\ openai_key[1] = Len(runs)
    /\ page_count = 1
    /\ client_calls = [nano |-> 2, mini |-> 0, timeouts |-> 1, other_errors |-> 0]
    /\ last_outcome.kind = "ok"
    /\ last_outcome.payload.confidence_score = Num(80)
    /\ last_outcome.payload.questions # <<>>

\* C19: after one timeout and a confident answer on the fast tier the run
\* succeeds and the attempts of the response show two calls of the fast tier
\* and none of the other.
C19_RetriedCallIsLoggedTwice ==
    TimedOutOnceThenAnswered =>
        /\ RunSucceeded
        /\ Len(AttemptsOf(NanoModel)) = 2
        /\ Len(AttemptsOf(MiniModel)) = 0

PageWasInvalid(i) == page_results[i].warnings = <<InvalidOutputWarning>>
NoUpstreamFailure ==
    /\ \A a \in 1..Len(attempts) : ~attempts[a].failed
    /\ response.status_code \notin {502, 504}

\* C20: a page whose payload failed validation counts as no questions with
\* confidence 0 and the warning; and a run with such a page and without a
\* failed upstream call goes through every page and ends with status
\* success.
C20_InvalidPayloadNeverFailsRun ==
    /\ \A i \in 1..Len(page_results) :
           PageWasInvalid(i) => page_results[i].questions = <<>> /\ page_results[i].confidence = 0
    /\ (Returned /\ NoUpstreamFailure /\ \E i \in 1..Len(page_results) : PageWasInvalid(i))
           => /\ Len(page_results) = page_count
              /\ RunSucceeded

(* ------------------------ order, errors, stages ----------------------- *)
\* C21: the parser calls of an invocation are made one after the other in
\* ascending page order, starting at page 1 and never skipping a page, and a
\* call of the strong tier for a page comes after the call of the fast tier
\* for that page.
C21_CallsInPageOrder ==
    /\ calls # <<>> => calls[1] = NanoCall(1)
    /\ \A k \in 1..(Len(calls) - 1) :
           /\ calls[k].page_index <= calls[k + 1].page_index
           /\ calls[k + 1].page_index <= calls[k].page_index + 1
    /\ \A k \in 1..Len(calls) :
           calls[k].model = MiniModel =>
               \E j \in 1..(k - 1) : calls[j] = NanoCall(calls[k].page_index)

C21_Witness ==
    /\ pc = "save"
    /\ calls = <<NanoCall(1), MiniCall(1), NanoCall(2), MiniCall(2)>>

\* C22: a parse that ends on an upstream error answers 504 exactly when the
\* error that ended it was a timeout (upstream status 504), and 502 when it
\* was any other error.
C22_TimeoutIs504OtherIs502 ==
    (Returned /\ response.status_code \in {502, 504}) =>
        (response.status_code = 504 <=> response.openai_status = 504)

BuildFailureDetails ==
    {"No key files uploaded", "Too many key pages", "PDF render failed",
     "PDF has too many pages", "No key pages available"}

\* C23: every failure response of parse carries a stage, the page count and
\* the page being processed, and the stage is load_exam for a missing exam,
\* build_key_pages for a failed build, model_config for a configuration
\* error and call_openai_mini_page_i for an upstream failure on page i.
C23_FailureResponseNamesStage ==
    (Returned /\ response.status_code # 200) =>
        /\ response.stage # NoStage
        /\ response.stage = stage
        /\ response.page_count = page_count
        /\ response.page_index = page_index
        /\ response.status_code = 404 => response.stage = Stage("load_exam", 0)
        /\ response.detail \in BuildFailureDetails => response.stage = Stage("build_key_pages", 0)
        /\ LastRun.error.detail = "Missing required model in allowlist"
               => response.stage = Stage("model_config", 0)
        /\ response.status_code \in {502, 504} =>
               response.stage = Stage("call_openai_mini_page", response.page_index)

(* ---------------------- schema builder, specified --------------------- *)
\* The object nodes the documents are assembled from: with or without a
\* properties dict and a declared property, additionalProperties absent,
\* false or true, required absent, empty or naming the property.
InnerObjects ==
    {SchemaNode("object", properties, <<>>, <<>>, additionalProperties, required) :
        properties \in {<<>>, <<(<<>>)>>, <<(<<Prop("a", Leaf("string"))>>)>>},
        additionalProperties \in {<<>>, <<FALSE>>, <<TRUE>>},
        required \in {<<>>, <<(<<>>)>>, <<(<<"a">>)>>}}

\* An object node the validator accepts, with one property.
StrictObject(key, value) ==
    SchemaNode("object", <<(<<Prop(key, value)>>)>>, <<>>, <<>>, <<FALSE>>, <<(<<key>>)>>)

\* The schema of test_schema_validation_rejects_non_strict_shape.
NonStrictShape == Object(<<Prop("x", Object(<<Prop("a", Leaf("string"))>>))>>)

\* The documents handed to the schema functions: an object node alone, as
\* the items of an array, as a property of a strict object, as a property
\* two levels down, and as a variant of anyOf.
Schemas ==
    InnerObjects
    \cup {Array(o) : o \in InnerObjects}
    \cup {StrictObject("x", o) : o \in InnerObjects}
    \cup {StrictObject("y", Array(StrictObject("x", o))) : o \in InnerObjects}
    \cup {SchemaNode("string", <<>>, <<>>, <<o>>, <<>>, <<>>) : o \in InnerObjects}
    \cup {NonStrictShape, base_answer_key_schema}

\* build_answer_key_response_schema: the base schema made strict, then
\* validated; the schema is returned when the validation does not raise.
build_answer_key_response_schema ==
    /\ schema_pc = "given"
    /\ schema' = ensure_strict_schema_node(base_answer_key_schema)
    /\ schema_error' = validate_schema_strictness(schema')
    /\ schema_pc' = "built"
    /\ UNCHANGED outside_schema

\* _ensure_strict_schema_node on a document.
ensure_strict_schema ==
    /\ schema_pc = "given"
    /\ schema' = ensure_strict_schema_node(schema)
    /\ schema_pc' = "ensured"
    /\ UNCHANGED <<schema_error, outside_schema>>

\* validate_schema_strictness on a document, hand-built or made strict.
validate_schema ==
    /\ schema_pc \in {"given", "ensured"}
    /\ schema_error' = validate_schema_strictness(schema)
    /\ schema_pc' = IF schema_pc = "given" THEN "validated" ELSE "ensured_validated"
    /\ UNCHANGED <<schema, outside_schema>>

InitSchema ==
    /\ DbInit /\ LocalsInit /\ SessionsIdle /\ parser = LiveParser /\ BulkIdle /\ ClientIdle /\ ValidatorIdle
    /\ schema \in Schemas
    /\ schema_pc = "given"
    /\ schema_error = FALSE

NextSchema ==
    \/ build_answer_key_response_schema
    \/ ensure_strict_schema
    \/ validate_schema

SpecSchema == InitSchema /\ [][NextSchema]_vars

\* The object nodes of a document, at any depth.
RECURSIVE ObjectNodes(_)
ObjectNodes(node) ==
    (IF node.type = "object" THEN {node} ELSE {})
    \cup (IF node.properties = <<>> THEN {}
          ELSE UNION {ObjectNodes(node.properties[1][i].value) : i \in 1..Len(node.properties[1])})
    \cup (IF node.items = <<>> THEN {} ELSE ObjectNodes(node.items[1]))
    \cup UNION {ObjectNodes(node.anyOf[i]) : i \in 1..Len(node.anyOf)}

\* The names an object node declares.
Declared(node) ==
    IF node.properties = <<>> THEN {}
    ELSE {node.properties[1][i].key : i \in 1..Len(node.properties[1])}

\* The strictness invariant on one object node.
IsStrict(node) ==
    /\ node.additionalProperties = <<FALSE>>
    /\ node.required # <<>>
    /\ Len(node.required[1]) = Cardinality(Declared(node))
    /\ {node.required[1][i] : i \in 1..Len(node.required[1])} = Declared(node)

\* C24: in the schema that build_answer_key_response_schema returns, every
\* object node at any depth has additionalProperties = false and a required
\* list of exactly its declared property names; and so has every document
\* that _ensure_strict_schema_node has worked on.
C24_BuiltSchemaIsStrict ==
    /\ schema_pc = "built" =>
           /\ ~schema_error
           /\ \A node \in ObjectNodes(schema) : IsStrict(node)
    /\ schema_pc \in {"ensured", "ensured_validated"} =>
           \A node \in ObjectNodes(schema) : IsStrict(node)

\* The built schema with its four object nodes: the root, the question
\* items, the criteria items and the evidence items.
C24_Witness ==
    /\ schema_pc = "built"
    /\ Cardinality(ObjectNodes(schema)) = 4
    /\ \E node \in ObjectNodes(schema) : Declared(node) = {"desc", "marks"}

\* C25: validate_schema_strictness raises SchemaBuildError for every schema
\* with an object node, at any depth, whose additionalProperties is not
\* false, or whose required list is missing, or whose required list is not
\* exactly its declared property names.
C25_NonStrictSchemaIsRejected ==
    (schema_pc \in {"validated", "ensured_validated"}
     /\ \E node \in ObjectNodes(schema) : ~IsStrict(node))
        => schema_error

(* --------------------- payload validator, specified ------------------- *)
MaxRawQuestions == 2    \* items of the questions list handed to the validator

RawItems ==
    {RawItem(FALSE, "missing", "", NotNum, TRUE)}
    \cup {RawItem(TRUE, l[1], l[2], max_marks, criteria_is_list) :
            l \in {<<"string", "Q1">>, <<"string", "">>, <<"string", BlankLabel>>,
                   <<"null", "">>, <<"missing", "">>},
            max_marks \in {Num(3), NotNum},
            criteria_is_list \in BOOLEAN}

RawItemLists == UNION {[1..n -> RawItems] : n \in 0..MaxRawQuestions}

\* The decoded payloads handed to the validator; confidence in percent.
RawPayloads ==
    {Payload(confidence_score, TRUE, qs, ws) :
        confidence_score \in {Num(0), Num(80), Num(100), Num(101), Num(-1), NotNum, Inf},
        qs \in RawItemLists,
        ws \in {<<>>, <<"model warning">>}}
    \cup {Payload(confidence_score, FALSE, <<>>, <<>>) : confidence_score \in {Num(80), NotNum}}

\* Criteria lists: none, a list with an entry without numeric marks and an
\* entry that is no object between two good ones, and a list of one bad entry.
CriteriaLists ==
    {<<>>,
     <<Criterion(TRUE, "c1", Num(1)), Criterion(TRUE, "c2", NotNum),
       Criterion(FALSE, "", NotNum), Criterion(TRUE, "c3", Num(2))>>,
     <<Criterion(TRUE, "c2", NotNum)>>}

\* Questions with a label and marks whose other keys may be defective.
DefectItems ==
    {WithDefects(RawQuestion(label, Num(3)), marks_confidence, marks_source, criteria,
                 evidence_is_list) :
        label \in {"Q1"},
        marks_confidence \in {Num(50), NotNum},
        marks_source \in {"inferred", "guessed"},
        criteria \in CriteriaLists,
        evidence_is_list \in BOOLEAN}

DefectPayloads ==
    {Payload(Num(80), TRUE, qs, <<>>) :
        qs \in UNION {[1..n -> DefectItems] : n \in 1..MaxRawQuestions}}

\* One call of _validate_parse_payload.
validate_parse_payload_call ==
    /\ validate_pc = "given"
    /\ validate_result' = validate_parse_payload(raw_payload)
    /\ validate_pc' = "done"
    /\ UNCHANGED <<raw_payload, outside_validator>>

InitValidator ==
    /\ DbInit /\ LocalsInit /\ SessionsIdle /\ parser = LiveParser /\ BulkIdle /\ ClientIdle /\ SchemaIdle
    /\ raw_payload \in RawPayloads \cup DefectPayloads
    /\ validate_pc = "given"
    /\ validate_result = NoValidation

NextValidator == validate_parse_payload_call

SpecValidator == InitValidator /\ [][NextValidator]_vars

\* The item has a non-empty label and a numeric max_marks.
HasLabelAndMarks(q) ==
    /\ q.is_object
    /\ q.label_kind = "string"
    /\ q.label \notin {"", BlankLabel}
    /\ IsNumber(q.max_marks)

InUnitInterval(x) == x.kind = "num" /\ 0 <= x.val /\ x.val <= 100

\* C26: the payload validator raises exactly when confidence_score is not a
\* number in [0,1], or questions is not a list, or some question lacks a
\* non-empty label or a numeric max_marks; an empty questions list is
\* accepted and a warning is appended to the returned warnings.
C26_ValidatorFailsExactlyWhen ==
    validate_pc = "done" =>
        /\ validate_result.raised <=>
               \/ ~InUnitInterval(raw_payload.confidence_score)
               \/ ~raw_payload.questions_is_list
               \/ \E i \in 1..Len(raw_payload.questions) :
                      ~HasLabelAndMarks(raw_payload.questions[i])
        /\ (~validate_result.raised /\ raw_payload.questions = <<>>) =>
               validate_result.warnings = Append(raw_payload.warnings, NoQuestionsWarning)

(* ------------------------- evidence, key pages ------------------------ *)
\* The rows of qs that a save of merged writes: the last row of every label
\* of merged that has a row, and the rows added after those of qs.
WrittenBySave(qs, merged, i) ==
    \/ i > Len(qs)
    \/ \E k \in 1..Len(merged) : existing_by_label(qs)[merged[k].label] = i

\* C27: after a successful parse the evidence rows of every Question that
\* the parse wrote are exactly the evidence regions of an item of that
\* parse's result with the question's label: no row of an earlier parse
\* remains.
C27_EvidenceIsReplaced ==
    [][(pc = "save" /\ pc' = "done" /\ runs'[Len(runs')].status = "success") =>
          \A i \in 1..Len(questions') :
              WrittenBySave(questions, merged_questions_payload, i) =>
                  \E k \in 1..Len(merged_questions_payload) :
                      /\ merged_questions_payload[k].label = questions'[i].label
                      /\ questions'[i].evidence =
                             evidence_rows(merged_questions_payload[k].evidence)]_vars

\* A second successful parse has found on page 2 a question that the first
\* one had found on page 1.
C27_Witness ==
    /\ RunSucceeded
    /\ Len(runs) = 2
    /\ \E i \in 1..Len(before.questions) :
           /\ before.questions[i].evidence # <<>>
           /\ Len(questions[i].evidence) = 1
           /\ questions[i].evidence # before.questions[i].evidence

\* C28: key-page building makes no partial updates: a step that changes the
\* persisted key pages, in build-pages or in the first stage of parse,
\* leaves the complete set of pages of the key files, numbered from 1; a
\* build that fails leaves the pages as they were.
C28_KeyPagesNeverPartial ==
    [][key_pages' # key_pages =>
          LET b == build_loop(key_files, 1, 1)
          IN /\ ~b.raised
             /\ key_pages' = b.pages]_vars

(* ----------------------------- exam status ---------------------------- *)
\* PATCH /exams/{id}/questions/{question_id} with a new max_marks
update_question ==
    /\ pc = "idle"
    /\ UNCHANGED outside_parse
    /\ \E i \in 1..Len(questions) :
          questions' = [questions EXCEPT ![i].max_marks = ManualMarks]
    /\ last_success' = NoSuccess
    /\ UNCHANGED <<exam_status, key_files, key_pages, manual_count, runs, parser>>
    /\ UNCHANGED local_vars

\* The exam lifecycle with the question update, under the stub parsers.
NextLifecycle ==
    \/ Next
    \/ update_question

SpecLifecycle == InitStub /\ [][NextLifecycle]_vars

\* A step of a handler other than parse_answer_key.
OutsideParse == pc = "idle" /\ pc' = "idle"

\* C29 as stated: the status of an existing exam is changed only by the
\* parse orchestrator and by the complete-review call.
C29_StatusChangedOnlyByParseAndReview ==
    [][(exam_status # "none" /\ exam_status' # exam_status /\ OutsideParse) =>
          (exam_status' = "READY" /\ UNCHANGED <<key_files, key_pages, questions>>)]_vars

\* C29, amended: outside the parse orchestrator the status of an existing
\* exam is changed only by a key file upload, which sets KEY_UPLOADED, by
\* build-pages, which sets KEY_PAGES_READY, and by complete-review, which
\* sets READY; creating or updating a question leaves it unchanged.
C29_StatusChangedOnlyByKeyAndReviewCalls ==
    [][(exam_status # "none" /\ OutsideParse) =>
          /\ exam_status' # exam_status =>
                 \/ key_files' # key_files /\ exam_status' = "KEY_UPLOADED"
                 \/ UNCHANGED <<key_files, questions>> /\ exam_status' = "KEY_PAGES_READY"
                 \/ UNCHANGED <<key_files, key_pages, questions>> /\ exam_status' = "READY"
          /\ key_files' # key_files => exam_status' = "KEY_UPLOADED"
          /\ questions' # questions => exam_status' = exam_status]_vars

\* Upload and build-pages have set the status without any parse, and a
\* question was created and updated since without changing it.
C29_Witness ==
    /\ exam_status = "KEY_PAGES_READY"
    /\ runs = <<>>
    /\ key_pages # <<>>
    /\ pc = "idle"
    /\ \E i \in 1..Len(questions) : questions[i].max_marks = ManualMarks

(* ---------------------------- usage and cost -------------------------- *)
\* The keys of the dict the handler returns on success.
success_response_keys ==
    {"ok", "request_id", "stage", "model_used", "confidence_score", "questions",
     "questions_count", "warnings", "timings", "attempts", "page_index", "page_count",
     "key_pages"}

\* C30: the response of a successful parse carries usage (total_tokens) and
\* cost (total_cost), the sums over the calls of its attempts log.
C30_SuccessReportsUsageAndCost ==
    (Returned /\ response.status_code = 200) =>
        {"usage", "cost"} \subseteq success_response_keys

(* ------------------------ escalation, warnings ------------------------ *)
\* The elements of a sequence.
Elements(seq) == {seq[i] : i \in 1..Len(seq)}

\* C31: when a page is escalated and the payload of the strong tier fails
\* validation too, the warnings accumulated for the page still include the
\* warnings of the fast-tier result.
C31_FastTierWarningsKept ==
    [][(/\ pc = "call_mini_escalation"
        /\ page_results' # page_results
        /\ validate_parse_payload(received'.payload).raised) =>
          Elements(validated_or_invalid(received.payload).warnings)
              \subseteq Elements(page_results'[Len(page_results')].warnings)]_vars

(* ----------------------- segmentation, page by page ------------------- *)
\* The loop of _segment_bulk_candidates takes the page at det_index.
LoopStep == seg_pc = "loop" /\ det_index' = det_index + 1

\* The name the loop resolves for a detection: "" when the page has none.
ResolvedName(det) ==
    IF strip(det.student_name) = "" THEN ""
    ELSE nearest_roster_name(strip(det.student_name), roster)

\* C32: a new candidate starts at page p exactly when p carries a resolved
\* name different from the current candidate's name and that name is not
\* the sentinel; the current candidate is then closed at p - 1.  A page with
\* the current name, a page without a name, and the first named page while
\* the current name is the sentinel open no candidate.
C32_BoundariesFollowNameChanges ==
    [][LoopStep =>
          LET det == detections[det_index]
              changes == /\ ResolvedName(det) # ""
                         /\ current_name # UnknownStudent
                         /\ ResolvedName(det) # current_name
          IN IF changes
             THEN /\ current_start' = det.page_number
                  /\ Len(candidates') = Len(candidates) + 1
                  /\ candidates'[Len(candidates')].student_name = current_name
                  /\ candidates'[Len(candidates')].page_start = current_start
                  /\ candidates'[Len(candidates')].page_end = det.page_number - 1
             ELSE UNCHANGED <<current_start, candidates>>]_vars

\* The loop has closed a candidate at a name change after a nameless first
\* page had been taken into it.
C32_Witness ==
    /\ seg_pc = "loop"
    /\ det_index > 3
    /\ Len(candidates) = 1
    /\ candidates[1].page_start = 1
    /\ candidates[1].student_name # UnknownStudent
    /\ strip(detections[1].student_name) = ""
    /\ current_start = candidates[1].page_end + 1

\* The last page before p that carries a name, 0 when there is none.
RECURSIVE LastNamedBefore(_)
LastNamedBefore(p) ==
    IF p <= 1 THEN 0
    ELSE IF ~Nameless(p - 1) THEN p - 1
    ELSE LastNamedBefore(p - 1)

\* C33: a nameless page whose run of consecutive nameless pages exceeds the
\* tolerance stays in the current candidate, adds exactly one warning, which
\* names the page, and is recorded with confidence 0.
C33_PageBeyondToleranceIsFlagged ==
    [][(LoopStep /\ Nameless(det_index) /\ RunAt(det_index) > MAX_CARRY_FORWARD_PAGES) =>
          /\ UNCHANGED <<current_name, current_start, candidates>>
          /\ current_start <= detections[det_index].page_number
          /\ Len(warnings') = Len(warnings) + 1
          /\ warnings'[Len(warnings')].kind = "ambiguous_page"
          /\ warnings'[Len(warnings')].page = detections[det_index].page_number
          /\ Len(confidences') = Len(confidences) + 1
          /\ confidences'[Len(confidences')] = 0]_vars

\* The third nameless page in a row after a named page has been flagged.
C33_Witness ==
    /\ seg_pc = "loop"
    /\ det_index = 5
    /\ ~Nameless(1)
    /\ RunAt(4) = 3
    /\ warnings # <<>>
    /\ warnings[Len(warnings)].page = 4
    /\ confidences[Len(confidences)] = 0

\* C34: the confidence recorded for a nameless page within the tolerance is
\* the larger of 0.4 and the last detected confidence of the current
\* candidate, and 0.4 when no confidence has been detected yet.
C34_SyntheticConfidence ==
    [][(LoopStep /\ Nameless(det_index) /\ RunAt(det_index) <= MAX_CARRY_FORWARD_PAGES) =>
          /\ Len(confidences') = Len(confidences) + 1
          /\ confidences'[Len(confidences')] >= SYNTHETIC_CONFIDENCE
          /\ confidences'[Len(confidences')] =
                 IF LastNamedBefore(det_index) = 0 THEN SYNTHETIC_CONFIDENCE
                 ELSE max(detections[LastNamedBefore(det_index)].confidence,
                          SYNTHETIC_CONFIDENCE)]_vars

\* A page detected with 0.3 has been followed by a nameless page, which is
\* recorded with 0.4.
C34_Witness ==
    /\ seg_pc = "loop"
    /\ det_index = 3
    /\ ~Nameless(1)
    /\ Nameless(2)
    /\ detections[1].confidence = 30
    /\ confidences = <<30, SYNTHETIC_CONFIDENCE>>

(* ------------------------- validator coercions ------------------------ *)
\* Nothing but the coerced keys can be wrong with the payload.
OnlyCoercibleDefects(p) ==
    /\ InUnitInterval(p.confidence_score)
    /\ p.questions_is_list
    /\ \A i \in 1..Len(p.questions) :
           HasLabelAndMarks(p.questions[i]) /\ p.questions[i].criteria_is_list

\* C35: the validator coerces instead of rejecting: in a payload that
\* passes, a marks_confidence that is no number becomes 0, a marks_source
\* outside explicit, inferred, unknown becomes unknown, the criteria entries
\* without numeric marks are dropped and the others kept in order, and an
\* evidence that is no list becomes the empty list; and none of these defects
\* makes the validation fail.
C35_ValidatorCoerces ==
    validate_pc = "done" =>
        /\ OnlyCoercibleDefects(raw_payload) => ~validate_result.raised
        /\ ~validate_result.raised =>
               /\ Len(validate_result.questions) = Len(raw_payload.questions)
               /\ \A i \in 1..Len(raw_payload.questions) :
                      LET given == raw_payload.questions[i]
                          kept == validate_result.questions[i]
                      IN /\ kept.label = given.label
                         /\ kept.max_marks = given.max_marks
                         /\ kept.marks_confidence =
                                (IF given.marks_confidence.kind = "str" THEN Num(0)
                                 ELSE given.marks_confidence)
                         /\ kept.marks_source =
                                (IF given.marks_source \in {"explicit", "inferred", "unknown"}
                                 THEN given.marks_source ELSE "unknown")
                         /\ kept.criteria =
                                SelectSeq(given.criteria,
                                          LAMBDA c : c.is_object /\ c.marks.kind # "str")
                         /\ kept.evidence_is_list
                         /\ kept.evidence =
                                (IF given.evidence_is_list THEN given.evidence ELSE <<>>)

\* Two questions with every coercible defect have passed: the second
\* criterion and the entry that is no object are gone.
C35_Witness ==
    /\ validate_pc = "done"
    /\ ~validate_result.raised
    /\ Len(raw_payload.questions) = 2
    /\ \A i \in 1..2 :
           /\ raw_payload.questions[i].marks_confidence = NotNum
           /\ raw_payload.questions[i].marks_source = "guessed"
           /\ Len(raw_payload.questions[i].criteria) = 4
           /\ ~raw_payload.questions[i].evidence_is_list
           /\ Len(validate_result.questions[i].criteria) = 2
           /\ validate_result.questions[i].marks_source = "unknown"

(* ------------------- parse requests served concurrently ---------------- *)
\* parse_answer_key is a sync handler: every request runs it in a worker
\* thread with a Session of its own (get_session).  The handler meets the
\* database at three places, and requests interleave between them: the
\* commits before the page loop, the read of the Question rows once the page
\* loop is over, and the save loop with its commit.  The write lock taken by
\* the save loop's first flush is held until that commit, so a save loop and
\* its commit are one step for every other request.

\* What the page loop of a concurrent request has merged: one valid question.
SessionPayloads == {<<RawQuestion(l, Num(m))>> : l \in Labels, m \in {3, 5}}

\* The run row is committed, the key pages exist, the page loop starts.
session_begin(w) ==
    /\ sessions[w].pc = "idle"
    /\ runs' = Append(runs, new_run)
    /\ exam_status' = status_after_build(exam_status)
    /\ sessions' = [sessions EXCEPT ![w].pc = "page_loop", ![w].run = Len(runs) + 1]
    /\ UNCHANGED <<key_files, key_pages, questions, manual_count, parser, last_success>>
    /\ UNCHANGED local_vars
    /\ UNCHANGED outside_sessions

\* The page loop is over with some merged payload; existing is read.
session_read_existing(w) ==
    /\ sessions[w].pc = "page_loop"
    /\ \E merged \in SessionPayloads :
          sessions' = [sessions EXCEPT ![w].pc = "save",
                                       ![w].merged = merged,
                                       ![w].existing = existing_by_label(questions)]
    /\ UNCHANGED db_vars
    /\ UNCHANGED <<parser, last_success>>
    /\ UNCHANGED local_vars
    /\ UNCHANGED outside_sessions

\* The save loop over the label map read earlier, the status, the run, the commit.
session_save(w) ==
    /\ sessions[w].pc = "save"
    /\ LET s == save_loop(questions, sessions[w].existing, sessions[w].merged, 1)
       IN questions' = s.questions
    /\ exam_status' = status_after_save(sessions[w].merged)
    /\ runs' = [runs EXCEPT ![sessions[w].run] = succeeded_run(@, NanoModel)]
    /\ sessions' = [sessions EXCEPT ![w].pc = "done"]
    /\ UNCHANGED <<key_files, key_pages, manual_count, parser, last_success>>
    /\ UNCHANGED local_vars
    /\ UNCHANGED outside_sessions

\* An exam with its key pages built, with or without a question made by hand.
InitConcurrent ==
    /\ exam_status = "KEY_PAGES_READY"
    /\ key_files = <<ImageFile>>
    /\ key_pages = <<1>>
    /\ \E l \in ManualLabels :
          \/ questions = <<>> /\ manual_count = 0
          \/ /\ questions = <<[label |-> l, max_marks |-> ManualMarks, evidence |-> <<>>]>>
             /\ manual_count = 1
    /\ runs = <<>>
    /\ last_success = NoSuccess
    /\ LocalsInit /\ SessionsIdle /\ parser = LiveParser
    /\ BulkIdle /\ ClientIdle /\ SchemaIdle /\ ValidatorIdle

NextConcurrent ==
    \E w \in Sessions : session_begin(w) \/ session_read_existing(w) \/ session_save(w)

SpecConcurrent == InitConcurrent /\ [][NextConcurrent]_vars

\* Every request has completed.
AllSessionsDone == \A w \in Sessions : sessions[w].pc = "done"

\* The label was extracted by a request.
Extracted(w, l) == \E k \in 1..Len(sessions[w].merged) : sessions[w].merged[k].label = l

\* The label had no row when the requests began.
NewLabel(l) == ~(manual_count = 1 /\ l \in ManualLabels)

\* C36: when concurrent parse requests for one exam have all completed and
\* all of them extracted a label that had no Question row before, the exam
\* has exactly one Question row with that label.
C36_ConcurrentParsesMakeOneQuestion ==
    AllSessionsDone =>
        \A l \in Labels :
            (NewLabel(l) /\ \A w \in Sessions : Extracted(w, l))
                => RowsWithLabel(questions, l) = 1

(* ------------------------------- C37 ---------------------------------- *)
\* C37: a step in which the nano call of a page returns a payload that
\* validates, has a question and has a confidence of 0.60 or more
\* accumulates that payload as the page's result and leaves the page without
\* a mini call; and a mini call is only ever made for a page that has no
\* accumulated result, so the strong tier is never called for that page.
C37_StepKeepsFastTierResult ==
    LET v == validate_parse_payload(received'.payload)
    IN (/\ pc = "call_nano"
        /\ attempts' = Append(attempts, attempt(NanoModel, page_index, FALSE))
        /\ ~v.raised
        /\ v.questions # <<>>
        /\ v.confidence >= EscalationThreshold)
       => /\ page_results' = Append(page_results, page_result(received'.payload, page_index))
          /\ Len(page_results') = page_index
          /\ calls' = Append(calls, NanoCall(page_index))
          /\ pc' \in {"call_nano", "save"}
          /\ pc' = "call_nano" => page_index' = page_index + 1

C37_StepMiniOnlyForOpenPage ==
    \A i \in 1..MaxKeyFiles :
        (calls' = Append(calls, MiniCall(i)) /\ pc # "idle") => Len(page_results) < i

C37_ConfidentFastTierResultIsKept ==
    [][C37_StepKeepsFastTierResult /\ C37_StepMiniOnlyForOpenPage]_vars

\* The confident nano result of the first of two pages was accumulated after
\* the nano call alone, and the loop is at the nano call of the second page.
C37_Witness ==
    /\ pc = "call_nano"
    /\ page_index = 2
    /\ calls = <<NanoCall(1)>>
    /\ attempts = <<attempt(NanoModel, 1, FALSE)>>
    /\ received.model = NanoModel
    /\ page_results = <<page_result(received.payload, 1)>>
    /\ page_results[1].questions # <<>>
    /\ page_results[1].confidence >= EscalationThreshold

(* ------------------------------- C38 ---------------------------------- *)
\* The page has the warning of a nameless run beyond the tolerance.
FlaggedAmbiguous(p) == \E w \in 1..Len(warnings) : warnings[w] = AmbiguousPageWarning(p)

\* C38: every candidate segmentation returns whose range contains a page
\* flagged ambiguous has needs_review set, whether it is the final candidate
\* or one closed earlier by a name change.
C38_AmbiguousPageFlagsCandidate ==
    Segmented =>
        \A i \in 1..Len(candidates) :
            (\E p \in pages_of(candidates[i]) : FlaggedAmbiguous(p))
                => candidates[i].needs_review

(* ------------------------------- C39 ---------------------------------- *)
\* C39: the candidates segmentation returns, taken in output order, tile the
\* pages: the first starts at the page of the first detection, each next one
\* starts at the page after the end of the one before it, the last ends at
\* the page of the last detection, and none is empty; an empty detection
\* list gives no candidates and no warnings.
C39_CandidatesTileInOrder ==
    /\ Segmented =>
          /\ candidates # <<>>
          /\ candidates[1].page_start = detections[1].page_number
          /\ \A i \in 1..(Len(candidates) - 1) :
                 candidates[i + 1].page_start = candidates[i].page_end + 1
          /\ LastCandidate.page_end = detections[Len(detections)].page_number
          /\ \A i \in 1..Len(candidates) : candidates[i].page_start <= candidates[i].page_end
    /\ (seg_pc \in {"preview", "finalized"} /\ detections = <<>>) =>
          /\ candidates = <<>>
          /\ warnings = <<>>

\* Four pages were tiled by three candidates, the first of two pages.
C39_Witness ==
    /\ Segmented
    /\ Len(detections) = 4
    /\ Outline(candidates) = << <<"Alice", 1, 2, FALSE>>, <<"Bob", 3, 3, FALSE>>,
                               <<"Alice", 4, 4, FALSE>> >>

(* ------------------------------- C40 ---------------------------------- *)
\* The labels of the items this invocation has accumulated.
ExtractedLabels ==
    {merged_questions_payload[k].label : k \in 1..Len(merged_questions_payload)}

\* C40: when the handler returns, on any path, every Question row that was
\* there when it began is still there under its label, and every such row
\* whose label is not among the labels extracted in this invocation has the
\* max_marks and the evidence rows it had.
C40_ParseKeepsOtherQuestions ==
    Returned =>
        /\ Len(questions) >= Len(before.questions)
        /\ \A i \in 1..Len(before.questions) :
               /\ questions[i].label = before.questions[i].label
               /\ before.questions[i].label \notin ExtractedLabels
                      => questions[i] = before.questions[i]

\* A second parse has changed the marks of Q1 next to a question made by
\* hand under another label.
C40_Witness ==
    /\ RunSucceeded
    /\ Len(before.questions) = 2
    /\ ExtractedLabels = {"Q1"}
    /\ \E i, j \in 1..2 :
           /\ before.questions[i].label = "Q1"
           /\ questions[i].max_marks # before.questions[i].max_marks
           /\ before.questions[j].label = "Q2"
           /\ questions[j] = before.questions[j]

====
